---- MODULE Spec2Model ----
(***************************************************************************)
(* GPUFabric: heartbeat ingestion (gpuf-s consumer/heartbeat_processor.rs), *)
(* stale-device sweeper (gpuf-s bin/heartbeat_consumer.rs) and the          *)
(* resumable parallel model downloader (gpuf-c util/model_downloader.rs).   *)
(* Each subsystem has its own specification over its own variables; the     *)
(* variables of the other subsystems stay at their initial values.          *)
(***************************************************************************)
EXTENDS Integers, Sequences, FiniteSets, TLC

(***************************************************************************)
(* Part 1.  Heartbeat pipeline: bus -> consumer batch -> channel ->         *)
(* start_processor -> process_batch -> one DB transaction per record.       *)
(***************************************************************************)

\* Bounds of the heartbeat model.
MaxRecords == 2
MaxCrashes == 1
BatchSize == 2
ChanCap == 1

Clients == {"c1", "c2"}
Dates == {1, 2}

\* devices_info carried by a client's heartbeats (pod ids).
DevicesOf(c) == IF c = "c1" THEN {0, 1} ELSE {0}

\* The dates on which a client's heartbeats are stamped.
DatesOf(c) == IF c = "c1" THEN Dates ELSE {1}

Keys == Clients \X Dates
DevKeys == {<<c, p, d>> : c \in Clients, p \in {0, 1}, d \in Dates}

NoPayload == <<"none">>
Garbage == <<"garbage">>

\* The wire form of a heartbeat of client c.
EncodeHeartbeat(c) == <<"hb", c>>

\* bincode::decode_from_slice: Ok(heartbeat) or Err.
DecodeOk(p) == Len(p) = 2 /\ p[1] = "hb" /\ p[2] \in Clients
DecodeClient(p) == p[2]

\* The records the bus can carry: key present or not, payload absent,
\* undecodable or an encoded heartbeat, and the broker timestamp's UTC date.
RecordKinds ==
    {[key |-> FALSE, payload |-> EncodeHeartbeat("c1"), date |-> 1],
     [key |-> TRUE, payload |-> NoPayload, date |-> 1],
     [key |-> TRUE, payload |-> Garbage, date |-> 1]}
    \cup UNION {{[key |-> TRUE, payload |-> EncodeHeartbeat(c), date |-> d] :
                    d \in DatesOf(c)} : c \in Clients}

VARIABLES
    topic,      \* the bus log: sequence of records
    pos,        \* consumer read position (records 1..pos have been read)
    dispatched, \* position up to which batches were sent to the channel
    offset,     \* committed consumer-group offset
    buffer,     \* batch under construction (topic indices)
    chan,       \* mpsc channel: sequence of batches
    batch,      \* the batch process_batch iterates over
    idx,        \* index of the current message in batch
    pc,         \* processor position
    tx,         \* open transaction (uncommitted writes) or NoTx
    db,         \* committed database state
    committedRecs, \* topic indices with at least one committed transaction
    crashes,    \* number of process crashes so far
    ret,        \* value returned by the last process_batch call
    closed,     \* every Sender of the batch channel has been dropped
    atClose,    \* number of sent, unprocessed batches when the channel closed
    unprocessed, \* batches sent and not yet processed, in the order sent
    misordered, \* a batch was processed before one that was sent earlier
    exit        \* value returned by start_processor, "none" while it runs

\* Channel shutdown and what went through the channel.
drainVars == <<closed, atClose, unprocessed, misordered, exit>>

hbVars == <<topic, pos, dispatched, offset, buffer, chan, batch, idx, pc, tx, db,
            committedRecs, crashes, ret, drainVars>>

\* State of the stale-device sweeper (Part 2).
VARIABLES
    assets,     \* gpu_assets: device -> row
    now,        \* the database clock NOW(), in seconds
    rows,       \* rows_affected() of the last successful sweep, NoSweep before
    sweptAt,    \* NOW() of the last successful sweep
    pre,        \* gpu_assets as it was just before the last successful sweep
    sweeper,    \* the spawned task: "running" or "exited"
    errs        \* "none"; "failed" after a failed sweep (error! logged);
                \* "recovered" after the successful sweep that followed it

swVars == <<assets, now, rows, sweptAt, pre, sweeper, errs>>

\* State of the model downloader (Part 3).
VARIABLES
    config,     \* DownloadConfig: parallel_chunks, chunk_size, resume
    sameCfg,    \* every run so far used the same DownloadConfig
    srv,        \* what the server answers to HEAD, Range requests and GET
    out,        \* the output file: NoFile or its bytes
    parts,      \* <output>.parts/part-<i>: NoFile or its bytes
    dirExists,  \* <output>.parts exists
    dpc,        \* position of download()
    runs,       \* number of download() calls so far
    aborts,     \* number of runs that were cancelled
    result,     \* how the last run ended: "none", "Ok", "Err", "aborted"
    chunks,     \* the plan of calculate_chunks, <<>> outside the parallel path
    ct,         \* state of each chunk task
    reqStart,   \* first byte position of each chunk's Range request
    bodyPos,    \* bytes of each chunk's response body consumed so far
    existing,   \* bytes found in part files by the stat check
    completed,  \* chunk indices in the order join_next returned them
    asmIdx,     \* assemble_parts: index of the part being copied
    asmOff,     \* assemble_parts: bytes of that part already copied
    sStart,     \* simple_download: position of the first body byte
    sPos,       \* simple_download: body bytes consumed so far
    outAtStart, \* the output file was non-empty when download() was called
    path,       \* the path download() took: "none", "parallel", "simple"
    verify,     \* verify_checksum of the run: "none", "passed", "failed"
    after       \* verify of the run before this one

\* What a run remembers of its start and of the run before it.
runVars == <<outAtStart, path, verify, after>>

dlVars == <<config, sameCfg, srv, out, parts, dirExists, dpc, runs, aborts, result,
            chunks, ct, reqStart, bodyPos, existing, completed, asmIdx, asmOff,
            sStart, sPos, runVars>>

\* State of the client_daily_stats averages (Part 4).
VARIABLES
    stats,      \* client_daily_stats: (client, date) -> committed row
    statTx,     \* the row written by the open transaction, or NoStatTx
    samples     \* (client, date) -> the committed samples, in commit order

avgVars == <<stats, statTx, samples>>

\* State of the model catalog (Part 5).
VARIABLES
    models,     \* client_models: (name, version) -> row, or NoModel
    listed,     \* what the last get_models_list returned, or NoList
    pods        \* the last get_models_batch: its devices, queries and answer

catVars == <<models, listed, pods>>

\* State of the local inference engine (Part 6).
VARIABLES
    engine,     \* the LlamaEngine: model_path, is_initialized, models
    resident,   \* llama_wrapper: the models its global engine holds in memory
    calls,      \* the llama_wrapper calls of the last engine operation
    eret        \* the last engine operation and what it returned

engVars == <<engine, resident, calls, eret>>

\* State of the FFI and JNI entry points of lib.rs (Part 7).
VARIABLES
    global_engine,  \* GLOBAL_ENGINE is set
    lock,           \* the RwLock of GLOBAL_ENGINE: its readers and its writer
    tpc,            \* thread -> where it is in its entry point
    targ,           \* thread -> the model_path of its loadModel or gpuf_llm_init
    jret,           \* the last entry point that returned, and what it returned
    proxy,          \* GLOBAL_COMPUTE_PROXY
    wire            \* commands and HTTP requests the client has emitted

ffiVars == <<global_engine, lock, tpc, targ, jret, proxy, wire>>

\* State of one fresh parallel download seen from its plan_chunks (Part 8).
VARIABLES
    plan_cfg,    \* DownloadConfig: parallel_chunks, chunk_size
    plan_size,   \* what get_file_size returned
    plan_pc,     \* where download() is
    plan_chunks,        \* the Vec<DownloadChunk> of calculate_chunks
    semaphore,   \* permits of the Semaphore of download_chunks
    set          \* the JoinSet: chunk index -> state of its task

planVars == <<plan_cfg, plan_size, plan_pc, plan_chunks, semaphore, set>>

\* State of the last-error string of the C interface (Part 9).
VARIABLES
    LAST_ERROR,  \* the static: Null or the recorded message
    ffi_ret,     \* thread -> the last call it made and what it returned
    got_error    \* thread -> what gpuf_get_last_error last returned to it

errVars == <<LAST_ERROR, ffi_ret, got_error>>

\* State of the shared inference engine of inference_shared.rs (Part 10).
VARIABLES
    shared_use,        \* how the engine is used: "global" or "direct"
    engine_mutex,      \* holder of the Mutex in GLOBAL_SHARED_ENGINE
    request_queue,     \* SharedInferenceEngine.request_queue
    response_senders,  \* ids with a oneshot sender in response_senders
    next_id,           \* SharedInferenceEngine.next_id
    sent,              \* ids whose oneshot channel holds the response
    caller_pc,         \* caller -> where its generate call is
    caller_id,         \* caller -> its request_id
    proc_pc,           \* where the background processor is
    proc_req           \* the request the processor popped

shVars == <<shared_use, engine_mutex, request_queue, response_senders, next_id,
            sent, caller_pc, caller_id, proc_pc, proc_req>>

\* State of the points API of api_server/points.rs (Part 11).
VARIABLES
    device_points_daily,  \* the joined table: (client, date) -> points or Null
    points_req,           \* the PointsQueryRequest last served
    points_resp           \* the response to it

ptVars == <<device_points_daily, points_req, points_resp>>

vars == <<hbVars, swVars, dlVars, avgVars, catVars, engVars, ffiVars, planVars, errVars, shVars, ptVars>>

\* What the actions of one part leave alone.
notHB == <<swVars, dlVars, avgVars, catVars, engVars, ffiVars, planVars, errVars, shVars, ptVars>>
notSW == <<hbVars, dlVars, avgVars, catVars, engVars, ffiVars, planVars, errVars, shVars, ptVars>>
notDL == <<hbVars, swVars, avgVars, catVars, engVars, ffiVars, planVars, errVars, shVars, ptVars>>
notAvg == <<hbVars, swVars, dlVars, catVars, engVars, ffiVars, planVars, errVars, shVars, ptVars>>
notCat == <<hbVars, swVars, dlVars, avgVars, engVars, ffiVars, planVars, errVars, shVars, ptVars>>
\* What the actions on the engine and its entry points leave alone.
notEng == <<hbVars, swVars, dlVars, avgVars, catVars, planVars, errVars, shVars, ptVars>>
notPlan == <<hbVars, swVars, dlVars, avgVars, catVars, engVars, ffiVars, errVars, shVars, ptVars>>
notErr == <<hbVars, swVars, dlVars, avgVars, catVars, engVars, ffiVars, planVars, shVars, ptVars>>
notSh == <<hbVars, swVars, dlVars, avgVars, catVars, engVars, ffiVars, planVars, errVars, ptVars>>
notPt == <<hbVars, swVars, dlVars, avgVars, catVars, engVars, ffiVars, planVars, errVars, shVars>>

NoTx == [open |-> FALSE]

EmptyDb ==
    [hb |-> [k \in Keys |-> 0],
     cds |-> [k \in Keys |-> 0],
     dds |-> [k \in DevKeys |-> 0]]

HBInit ==
    /\ topic = <<>>
    /\ pos = 0
    /\ dispatched = 0
    /\ offset = 0
    /\ buffer = <<>>
    /\ chan = <<>>
    /\ batch = <<>>
    /\ idx = 1
    /\ pc = "recv"
    /\ tx = NoTx
    /\ db = EmptyDb
    /\ committedRecs = {}
    /\ crashes = 0
    /\ ret = "none"
    /\ closed = FALSE
    /\ atClose = 0
    /\ unprocessed = <<>>
    /\ misordered = FALSE
    /\ exit = "none"

\* The record process_batch is looking at, and its daily-stats key.
CurRec == topic[batch[idx]]
CurClient == DecodeClient(CurRec.payload)
CurKey == <<CurClient, CurRec.date>>

----------------------------------------------------------------------------
\* The message bus and the batching consumer.

\* A device publishes a record on the topic.
Produce(r) ==
    /\ Len(topic) < MaxRecords
    /\ topic' = Append(topic, r)
    /\ UNCHANGED <<pos, dispatched, offset, buffer, chan, batch, idx, pc, tx, db,
                   committedRecs, crashes, ret>>
    /\ UNCHANGED drainVars
    /\ UNCHANGED notHB

\* The consumer reads the next record into the batch under construction.
ConsumerPoll ==
    /\ ~closed
    /\ pos < Len(topic)
    /\ Len(buffer) < BatchSize
    /\ buffer' = Append(buffer, pos + 1)
    /\ pos' = pos + 1
    /\ UNCHANGED <<topic, dispatched, offset, chan, batch, idx, pc, tx, db,
                   committedRecs, crashes, ret>>
    /\ UNCHANGED drainVars
    /\ UNCHANGED notHB

\* batch_size reached or batch_timeout fired: the batch goes to the channel.
ConsumerDispatch ==
    /\ ~closed
    /\ buffer # <<>>
    /\ Len(chan) < ChanCap
    /\ chan' = Append(chan, buffer)
    /\ unprocessed' = Append(unprocessed, buffer)
    /\ buffer' = <<>>
    /\ dispatched' = pos
    /\ UNCHANGED <<topic, pos, offset, batch, idx, pc, tx, db, committedRecs,
                   crashes, ret>>
    /\ UNCHANGED <<closed, atClose, misordered, exit>>
    /\ UNCHANGED notHB

\* Shutdown: the consumer drops its Sender, which closes the batch channel.
\* The batch under construction is not sent.
CloseChannel ==
    /\ ~closed
    /\ closed' = TRUE
    /\ atClose' = Len(unprocessed)
    /\ UNCHANGED <<topic, pos, dispatched, offset, buffer, chan, batch, idx, pc,
                   tx, db, committedRecs, crashes, ret>>
    /\ UNCHANGED <<unprocessed, misordered, exit>>
    /\ UNCHANGED notHB

\* Offsets are committed after batch dispatch.
ConsumerCommitOffset ==
    /\ ~closed
    /\ offset < dispatched
    /\ offset' = dispatched
    /\ UNCHANGED <<topic, pos, dispatched, buffer, chan, batch, idx, pc, tx, db,
                   committedRecs, crashes, ret>>
    /\ UNCHANGED drainVars
    /\ UNCHANGED notHB

\* The process dies and is restarted: memory is lost, the open transaction is
\* rolled back by the server, reading resumes at the committed offset.
Crash ==
    /\ crashes < MaxCrashes
    /\ crashes' = crashes + 1
    /\ pos' = offset
    /\ dispatched' = offset
    /\ buffer' = <<>>
    /\ chan' = <<>>
    /\ batch' = <<>>
    /\ idx' = 1
    /\ pc' = "recv"
    /\ tx' = NoTx
    /\ ret' = "none"
    /\ closed' = FALSE
    /\ atClose' = 0
    /\ unprocessed' = <<>>
    /\ misordered' = FALSE
    /\ exit' = "none"
    /\ UNCHANGED <<topic, offset, db, committedRecs>>
    /\ UNCHANGED notHB

----------------------------------------------------------------------------
\* db::stats, as section 4.3 of the specification describes it.

\* insert_heartbeat: the point-in-time row of the heartbeat.
InsertHeartbeat(t, k) == [t EXCEPT !.hb = {k}]

\* ClientDailyStats::upsert: heartbeat_count <- heartbeat_count + 1.
ClientDailyStatsUpsert(t, k) ==
    [t EXCEPT !.cds = [key |-> k, heartbeat_count |-> db.cds[k] + 1]]

\* DeviceDailyStats::upsert_batch: one row per device of the heartbeat,
\* total_heartbeats <- total_heartbeats + 1.
DeviceDailyStatsUpsertBatch(t, c, d) ==
    [t EXCEPT !.dds =
        [k \in {<<c, p, d>> : p \in DevicesOf(c)} |-> db.dds[k] + 1]]

\* Postgres COMMIT: every write of the transaction becomes visible at once.
CommitTx(t) ==
    [hb |-> [k \in Keys |-> IF k \in t.hb THEN db.hb[k] + 1 ELSE db.hb[k]],
     cds |-> [k \in Keys |->
                IF t.cds # <<>> /\ t.cds.key = k
                THEN t.cds.heartbeat_count ELSE db.cds[k]],
     dds |-> [k \in DevKeys |->
                IF k \in DOMAIN t.dds THEN t.dds[k] ELSE db.dds[k]]]

----------------------------------------------------------------------------
\* start_processor and process_batch.

\* rx.recv() yields Some(messages): process_batch starts on them.
Recv ==
    /\ pc = "recv"
    /\ chan # <<>>
    /\ batch' = Head(chan)
    /\ chan' = Tail(chan)
    /\ idx' = 1
    /\ pc' = "msg"
    /\ ret' = "none"
    /\ UNCHANGED <<topic, pos, dispatched, offset, buffer, tx, db, committedRecs,
                   crashes>>
    /\ UNCHANGED drainVars
    /\ UNCHANGED notHB

\* Mutant of RecvNone: recv() yields None as soon as the channel is closed,
\* batches still queued or not.
RecvNone_OnClose ==
    /\ pc = "recv"
    /\ closed
    /\ pc' = "returned"
    /\ exit' = "Ok"
    /\ UNCHANGED <<topic, pos, dispatched, offset, buffer, chan, batch, idx, tx,
                   db, committedRecs, crashes, ret>>
    /\ UNCHANGED <<closed, atClose, unprocessed, misordered>>
    /\ UNCHANGED notHB

\* rx.recv() yields None, which an mpsc receiver does once every sender is
\* dropped and the queue is empty: break, and start_processor returns Ok(()).
RecvNone ==
    /\ pc = "recv"
    /\ closed
    /\ chan = <<>>
    /\ pc' = "returned"
    /\ exit' = "Ok"
    /\ UNCHANGED <<topic, pos, dispatched, offset, buffer, chan, batch, idx, tx,
                   db, committedRecs, crashes, ret>>
    /\ UNCHANGED <<closed, atClose, unprocessed, misordered>>
    /\ UNCHANGED notHB

\* `continue`: on to the next message of the batch.
Continue ==
    /\ idx' = idx + 1
    /\ pc' = "msg"

\* The for loop is exhausted: process_batch returns Ok(()).
BatchDone ==
    /\ pc = "msg"
    /\ idx > Len(batch)
    /\ ret' = "Ok"
    /\ pc' = "recv"
    /\ IF unprocessed # <<>> /\ Head(unprocessed) = batch
       THEN unprocessed' = Tail(unprocessed) /\ UNCHANGED misordered
       ELSE misordered' = TRUE /\ UNCHANGED unprocessed
    /\ batch' = <<>>
    /\ idx' = 1
    /\ UNCHANGED <<topic, pos, dispatched, offset, buffer, chan, tx, db,
                   committedRecs, crashes>>
    /\ UNCHANGED <<closed, atClose, exit>>
    /\ UNCHANGED notHB

\* A message without key, without payload or with an undecodable payload is
\* skipped.
MsgSkip ==
    /\ pc = "msg"
    /\ idx <= Len(batch)
    /\ \/ ~CurRec.key
       \/ CurRec.payload = NoPayload
       \/ ~DecodeOk(CurRec.payload)
    /\ Continue
    /\ UNCHANGED <<topic, pos, dispatched, offset, buffer, chan, batch, tx, db,
                   committedRecs, crashes, ret>>
    /\ UNCHANGED drainVars
    /\ UNCHANGED notHB

\* Key present, payload decoded: the record goes on to its transaction.
MsgDecoded ==
    /\ pc = "msg"
    /\ idx <= Len(batch)
    /\ CurRec.key
    /\ CurRec.payload # NoPayload
    /\ DecodeOk(CurRec.payload)
    /\ pc' = "begin"
    /\ UNCHANGED <<topic, pos, dispatched, offset, buffer, chan, batch, idx, tx, db,
                   committedRecs, crashes, ret>>
    /\ UNCHANGED drainVars
    /\ UNCHANGED notHB

\* db_pool.begin() succeeded.
BeginOk ==
    /\ pc = "begin"
    /\ tx' = [open |-> TRUE, hb |-> {}, cds |-> <<>>, dds |-> <<>>]
    /\ pc' = "insert"
    /\ UNCHANGED <<topic, pos, dispatched, offset, buffer, chan, batch, idx, db,
                   committedRecs, crashes, ret>>
    /\ UNCHANGED drainVars
    /\ UNCHANGED notHB

\* Mutant of BeginErr: the error is propagated with `?`, so process_batch
\* returns Err and drops the rest of the batch.
BeginErr_Propagate ==
    /\ pc = "begin"
    /\ ret' = "Err"
    /\ pc' = "recv"
    /\ batch' = <<>>
    /\ idx' = 1
    /\ UNCHANGED <<topic, pos, dispatched, offset, buffer, chan, tx, db,
                   committedRecs, crashes>>
    /\ UNCHANGED drainVars
    /\ UNCHANGED notHB

\* db_pool.begin() failed: log and continue.
BeginErr ==
    /\ pc = "begin"
    /\ Continue
    /\ UNCHANGED <<topic, pos, dispatched, offset, buffer, chan, batch, tx, db,
                   committedRecs, crashes, ret>>
    /\ UNCHANGED drainVars
    /\ UNCHANGED notHB

\* Mutant of InsertOk: the row is written through the pool instead of the
\* transaction, so it is visible at once.
InsertOk_Autocommit ==
    /\ pc = "insert"
    /\ db' = [db EXCEPT !.hb[CurKey] = @ + 1]
    /\ pc' = "upsert_client"
    /\ UNCHANGED <<topic, pos, dispatched, offset, buffer, chan, batch, idx, tx,
                   committedRecs, crashes, ret>>
    /\ UNCHANGED drainVars
    /\ UNCHANGED notHB

\* insert_heartbeat(&mut transaction, ...) succeeded.
InsertOk ==
    /\ pc = "insert"
    /\ tx' = InsertHeartbeat(tx, CurKey)
    /\ pc' = "upsert_client"
    /\ UNCHANGED <<topic, pos, dispatched, offset, buffer, chan, batch, idx, db,
                   committedRecs, crashes, ret>>
    /\ UNCHANGED drainVars
    /\ UNCHANGED notHB

\* Mutant of UpsertClientOk: the call is left out of process_batch.
UpsertClientOk_Skipped ==
    /\ pc = "upsert_client"
    /\ pc' = "upsert_devices"
    /\ UNCHANGED <<topic, pos, dispatched, offset, buffer, chan, batch, idx, tx, db,
                   committedRecs, crashes, ret>>
    /\ UNCHANGED drainVars
    /\ UNCHANGED notHB

\* ClientDailyStats::upsert(&mut transaction, ...) succeeded.
UpsertClientOk ==
    /\ pc = "upsert_client"
    /\ tx' = ClientDailyStatsUpsert(tx, CurKey)
    /\ pc' = "upsert_devices"
    /\ UNCHANGED <<topic, pos, dispatched, offset, buffer, chan, batch, idx, db,
                   committedRecs, crashes, ret>>
    /\ UNCHANGED drainVars
    /\ UNCHANGED notHB

\* DeviceDailyStats::upsert_batch(&mut transaction, ...) succeeded.
UpsertDevicesOk ==
    /\ pc = "upsert_devices"
    /\ tx' = DeviceDailyStatsUpsertBatch(tx, CurClient, CurRec.date)
    /\ pc' = "commit"
    /\ UNCHANGED <<topic, pos, dispatched, offset, buffer, chan, batch, idx, db,
                   committedRecs, crashes, ret>>
    /\ UNCHANGED drainVars
    /\ UNCHANGED notHB

\* One of the three writes failed: transaction.rollback() and continue.
StepErr ==
    /\ pc \in {"insert", "upsert_client", "upsert_devices"}
    /\ tx' = NoTx
    /\ Continue
    /\ UNCHANGED <<topic, pos, dispatched, offset, buffer, chan, batch, db,
                   committedRecs, crashes, ret>>
    /\ UNCHANGED drainVars
    /\ UNCHANGED notHB

\* transaction.commit() succeeded.
CommitOk ==
    /\ pc = "commit"
    /\ db' = CommitTx(tx)
    /\ committedRecs' = committedRecs \cup {batch[idx]}
    /\ tx' = NoTx
    /\ Continue
    /\ UNCHANGED <<topic, pos, dispatched, offset, buffer, chan, batch, crashes, ret>>
    /\ UNCHANGED drainVars
    /\ UNCHANGED notHB

\* transaction.commit() failed: nothing of the transaction is kept.
CommitErr ==
    /\ pc = "commit"
    /\ tx' = NoTx
    /\ Continue
    /\ UNCHANGED <<topic, pos, dispatched, offset, buffer, chan, batch, db,
                   committedRecs, crashes, ret>>
    /\ UNCHANGED drainVars
    /\ UNCHANGED notHB

HBNext ==
    \/ \E r \in RecordKinds : Produce(r)
    \/ ConsumerPoll
    \/ ConsumerDispatch
    \/ ConsumerCommitOffset
    \/ Crash
    \/ Recv
    \/ BatchDone
    \/ MsgSkip
    \/ MsgDecoded
    \/ BeginOk
    \/ BeginErr
    \/ InsertOk
    \/ UpsertClientOk
    \/ UpsertDevicesOk
    \/ StepErr
    \/ CommitOk
    \/ CommitErr

\* The same processor when the consumer shuts down by closing the channel;
\* the process is not killed.
HBDrainNext ==
    \/ \E r \in RecordKinds : Produce(r)
    \/ ConsumerPoll
    \/ ConsumerDispatch
    \/ ConsumerCommitOffset
    \/ CloseChannel
    \/ Recv
    \/ RecvNone
    \/ BatchDone
    \/ MsgSkip
    \/ MsgDecoded
    \/ BeginOk
    \/ BeginErr
    \/ InsertOk
    \/ UpsertClientOk
    \/ UpsertDevicesOk
    \/ StepErr
    \/ CommitOk
    \/ CommitErr

----------------------------------------------------------------------------
(***************************************************************************)
(* Part 2.  Stale-device sweeper: the task spawned by main of               *)
(* bin/heartbeat_consumer.rs runs one UPDATE on gpu_assets per tick.        *)
(***************************************************************************)

\* Bound of the sweeper model: the clock stops here.
MaxNow == 900

\* rows before any sweep has succeeded.
NoSweep == -1

\* --offline-after-secs, default value.
OfflineAfterSecs == 300

\* The clock advances by one of these amounts between two observations.
TickSteps == {150, 300}

Devices == {"d1", "d2"}

AssetRows ==
    [valid_status : {"valid", "invalid"},
     client_status : {"online", "offline"},
     updated_at : {0}]

SWInit ==
    /\ assets \in [Devices -> AssetRows]
    /\ now = 0
    /\ rows = NoSweep
    /\ sweptAt = 0
    /\ pre = assets
    /\ sweeper = "running"
    /\ errs = "none"

\* The sweeper is not part of the run: its state is fixed.
SWIdle ==
    /\ assets = [d \in Devices |->
                   [valid_status |-> "valid", client_status |-> "online",
                    updated_at |-> 0]]
    /\ now = 0
    /\ rows = NoSweep
    /\ sweptAt = 0
    /\ pre = assets
    /\ sweeper = "running"
    /\ errs = "none"

\* Mutant of SweepMatches: the valid_status condition is missing.
SweepMatches_AnyValidStatus(row, t) ==
    /\ row.client_status # "offline"
    /\ row.updated_at < t - OfflineAfterSecs

\* Mutant of SweepMatches: the client_status condition is missing.
SweepMatches_AnyClientStatus(row, t) ==
    /\ row.valid_status = "valid"
    /\ row.updated_at < t - OfflineAfterSecs

\* Mutant of SweepMatches: <= instead of <.
SweepMatches_Inclusive(row, t) ==
    /\ row.valid_status = "valid"
    /\ row.client_status # "offline"
    /\ row.updated_at <= t - OfflineAfterSecs

\* The WHERE clause of the sweep statement, NOW() being t.
SweepMatches(row, t) ==
    /\ row.valid_status = "valid"
    /\ row.client_status # "offline"
    /\ row.updated_at < t - OfflineAfterSecs

\* The UPDATE ... SET client_status = 'offline', updated_at = NOW().
SweepUpdate(table, t) ==
    [d \in DOMAIN table |->
        IF SweepMatches(table[d], t)
        THEN [table[d] EXCEPT !.client_status = "offline", !.updated_at = t]
        ELSE table[d]]

\* Time passes.
Tick(s) ==
    /\ now + s <= MaxNow
    /\ now' = now + s
    /\ UNCHANGED <<assets, rows, sweptAt, pre, sweeper, errs>>
    /\ UNCHANGED notSW

\* ticker.tick() fired and the statement succeeded: Ok(r).
SweepOk ==
    /\ sweeper = "running"
    /\ assets' = SweepUpdate(assets, now)
    /\ rows' = Cardinality({d \in Devices : SweepMatches(assets[d], now)})
    /\ sweptAt' = now
    /\ pre' = assets
    /\ errs' = IF errs = "failed" THEN "recovered" ELSE errs
    /\ UNCHANGED <<now, sweeper>>
    /\ UNCHANGED notSW

\* Mutant of SweepErr: the error leaves the loop and the task ends.
SweepErr_Terminates ==
    /\ sweeper = "running"
    /\ errs' = "failed"
    /\ sweeper' = "exited"
    /\ UNCHANGED <<assets, now, rows, sweptAt, pre>>
    /\ UNCHANGED notSW

\* ticker.tick() fired and the statement failed: Err(e) is logged, the loop
\* goes on.
SweepErr ==
    /\ sweeper = "running"
    /\ errs' = "failed"
    /\ UNCHANGED <<assets, now, rows, sweptAt, pre, sweeper>>
    /\ UNCHANGED notSW

\* Heartbeat ingest touches the device row: it is online and fresh again.
HeartbeatIngest(d) ==
    /\ assets[d].client_status # "online" \/ assets[d].updated_at # now
    /\ assets' = [assets EXCEPT ![d].client_status = "online",
                                 ![d].updated_at = now]
    /\ UNCHANGED <<now, rows, sweptAt, pre, sweeper, errs>>
    /\ UNCHANGED notSW

SWNext ==
    \/ \E s \in TickSteps : Tick(s)
    \/ SweepOk
    \/ SweepErr
    \/ \E d \in Devices : HeartbeatIngest(d)

----------------------------------------------------------------------------
(***************************************************************************)
(* Part 3.  ModelDownloader: size probe, resume decision, chunk plan, part  *)
(* files, concurrent chunk tasks, assembly; and the simple streaming path.  *)
(***************************************************************************)

\* Bounds of the downloader model.
FileSize == 4
MaxRuns == 2

\* The configurations a run can be started with.
ParallelChoices == {1, 3}
ChunkSizeChoices == {1, 2}

\* checksum: None.
NoChecksum == [hex |-> 0, upper |-> FALSE]

\* The server's file: the byte at position p (0-based) is p + 1, so every
\* position holds a different byte.
ServerFile == [i \in 1..FileSize |-> i]

\* SHA-256 as a number that identifies the content (no collisions); never 0.
RECURSIVE Sha256(_)
Sha256(f) ==
    IF f = <<>> THEN 1 ELSE Sha256(SubSeq(f, 1, Len(f) - 1)) * 8 + f[Len(f)]

\* format!("{:x}", digest): lower-case hex digits.
HexLower(d) == [hex |-> d, upper |-> FALSE]

\* str::to_lowercase.
ToLowercase(str) == [str EXCEPT !.upper = FALSE]

\* The checksums a caller supplies: the file's digest written in upper case,
\* and the digest of a file that differs from it in one byte.
ChecksumChoices ==
    {[hex |-> Sha256(ServerFile), upper |-> TRUE],
     HexLower(Sha256([ServerFile EXCEPT ![1] = 2]))}

Configs ==
    [parallel_chunks : ParallelChoices, chunk_size : ChunkSizeChoices,
     resume : BOOLEAN, checksum : {NoChecksum} \cup ChecksumChoices]

\* Mutant of VerifyChecksum: the comparison is skipped.
VerifyChecksum_AlwaysOk(f, expected_checksum) == "passed"

\* verify_checksum: the digest of the file against the expected one, both
\* lower-cased.
VerifyChecksum(f, expected_checksum) ==
    LET actual_checksum == HexLower(Sha256(f))
    IN  IF ToLowercase(actual_checksum) # ToLowercase(expected_checksum)
        THEN "failed"
        ELSE "passed"

\* `if let Some(checksum) = &self.config.checksum { verify_checksum }`.
VerifyIfSupplied(f, cfg) ==
    IF cfg.checksum = NoChecksum THEN "none"
    ELSE VerifyChecksum(f, cfg.checksum)

\* Part indices a plan can use.
PartIds == 0..2

\* The body of a 206 answer to Range: bytes=s-e.
RangeBody(s, e) == SubSeq(ServerFile, s + 1, e + 1)

\* The servers: whether HEAD carries a Content-Length, whether Range requests
\* are honoured with 206, whether the Content-Range of a 206 carries a
\* parsable total, whether the answer to a GET carries a Content-Length.
Servers ==
    {[head |-> TRUE, range |-> TRUE, total |-> TRUE, length |-> TRUE],
     [head |-> TRUE, range |-> FALSE, total |-> FALSE, length |-> TRUE],
     [head |-> FALSE, range |-> TRUE, total |-> TRUE, length |-> TRUE],
     [head |-> FALSE, range |-> TRUE, total |-> FALSE, length |-> TRUE],
     [head |-> FALSE, range |-> FALSE, total |-> FALSE, length |-> TRUE],
     [head |-> FALSE, range |-> FALSE, total |-> FALSE, length |-> FALSE]}

\* get_file_size when its requests are answered: the Content-Length of HEAD,
\* else the total of the Content-Range of the 206 answer to bytes=0-0, else
\* the Content-Length of that answer (the one requested byte when it is a
\* 206, the whole file when the server ignored the Range), else 0.
GetFileSize(s) ==
    IF s.head THEN FileSize
    ELSE IF s.range /\ s.total THEN FileSize
    ELSE IF s.length THEN (IF s.range THEN 1 ELSE FileSize)
    ELSE 0

\* An absent file; no file holds the byte 0.
NoFile == <<0>>
FileLen(f) == IF f = NoFile THEN 0 ELSE Len(f)

Min(a, b) == IF a <= b THEN a ELSE b

\* Mutant of CalculateChunks: the last chunk has the size of the others.
CalculateChunks_EqualSizes(start_pos, remaining, total_size, cfg) ==
    IF remaining <= cfg.chunk_size \/ cfg.parallel_chunks = 1
    THEN <<[start |-> start_pos, end |-> total_size - 1, index |-> 0]>>
    ELSE LET chunk_count == Min(remaining \div cfg.chunk_size, cfg.parallel_chunks)
             actual_chunk_size == remaining \div chunk_count
         IN  [n \in 1..chunk_count |->
                [start |-> start_pos + ((n - 1) * actual_chunk_size),
                 end |-> start_pos + (n * actual_chunk_size) - 1,
                 index |-> n - 1]]

\* calculate_chunks(start_pos, remaining, total_size).
CalculateChunks(start_pos, remaining, total_size, cfg) ==
    IF remaining <= cfg.chunk_size \/ cfg.parallel_chunks = 1
    THEN <<[start |-> start_pos, end |-> total_size - 1, index |-> 0]>>
    ELSE LET chunk_count == Min(remaining \div cfg.chunk_size, cfg.parallel_chunks)
             actual_chunk_size == remaining \div chunk_count
         IN  [n \in 1..chunk_count |->
                LET i == n - 1
                    chunk_start == start_pos + (i * actual_chunk_size)
                IN  [start |-> chunk_start,
                     end |-> IF i = chunk_count - 1
                             THEN total_size - 1
                             ELSE chunk_start + actual_chunk_size - 1,
                     index |-> i]]

\* max_len of a chunk: (chunk.end - chunk.start) + 1.
MaxLen(c) == (c.end - c.start) + 1

\* The chunk of the current plan with index i.
ChunkOf(i) == chunks[i + 1]
Planned == {chunks[n].index : n \in 1..Len(chunks)}

\* Mutant of StatCheck: an oversized part file is kept.
StatCheck_KeepOversized(files, plan) == files

\* download_chunks, the loop over the part files before the tasks start: a
\* part file longer than its chunk's span is removed.
StatCheck(files, plan) ==
    [i \in PartIds |->
        IF /\ \E n \in 1..Len(plan) : plan[n].index = i
           /\ files[i] # NoFile
           /\ Len(files[i]) > MaxLen(plan[i + 1])
        THEN NoFile
        ELSE files[i]]

\* The `existing` sum of the same loop.
RECURSIVE ExistingBytes(_, _, _)
ExistingBytes(files, plan, n) ==
    IF n = 0 THEN 0
    ELSE LET c == plan[n]
             len == FileLen(files[c.index])
         IN  ExistingBytes(files, plan, n - 1)
             + (IF files[c.index] # NoFile /\ len <= MaxLen(c) THEN len ELSE 0)

RunLocalsIdle ==
    /\ chunks = <<>>
    /\ ct = [i \in PartIds |-> "none"]
    /\ reqStart = [i \in PartIds |-> 0]
    /\ bodyPos = [i \in PartIds |-> 0]
    /\ existing = 0
    /\ completed = <<>>
    /\ asmIdx = 0
    /\ asmOff = 0
    /\ sStart = 0
    /\ sPos = 0

\* Nothing was downloaded yet.
DLFresh ==
    /\ sameCfg = TRUE
    /\ out = NoFile
    /\ parts = [i \in PartIds |-> NoFile]
    /\ dirExists = FALSE
    /\ dpc = "idle"
    /\ runs = 0
    /\ aborts = 0
    /\ result = "none"
    /\ RunLocalsIdle
    /\ outAtStart = FALSE
    /\ path = "none"
    /\ verify = "none"
    /\ after = "none"

\* Downloads without a checksum.
DLInit ==
    /\ config \in {c \in Configs : c.checksum = NoChecksum}
    /\ srv \in Servers
    /\ DLFresh

\* Downloads with a checksum.
DLSumInit ==
    /\ config \in {c \in Configs : c.checksum # NoChecksum}
    /\ srv \in Servers
    /\ DLFresh

\* The downloader is not part of the run: its state is fixed.
DLIdle ==
    /\ config = [parallel_chunks |-> 1, chunk_size |-> 1, resume |-> TRUE,
                 checksum |-> NoChecksum]
    /\ srv = [head |-> TRUE, range |-> TRUE, total |-> TRUE, length |-> TRUE]
    /\ DLFresh

\* A run is over: its locals are dropped (existing is kept until the next
\* run starts).
EndRun(r) ==
    /\ dpc' = "idle"
    /\ result' = r
    /\ chunks' = <<>>
    /\ ct' = [i \in PartIds |-> "none"]
    /\ reqStart' = [i \in PartIds |-> 0]
    /\ bodyPos' = [i \in PartIds |-> 0]
    /\ UNCHANGED existing
    /\ completed' = <<>>
    /\ asmIdx' = 0
    /\ asmOff' = 0
    /\ sStart' = 0
    /\ sPos' = 0

\* Between two runs the caller builds a downloader with another config.
Reconfigure(c) ==
    /\ dpc = "idle"
    /\ sameCfg
    /\ runs > 0
    /\ runs < MaxRuns
    /\ c # config
    /\ c.checksum = config.checksum
    /\ config' = c
    /\ sameCfg' = FALSE
    /\ UNCHANGED <<srv, out, parts, dirExists, dpc, runs, aborts, result, chunks, ct,
                   reqStart, bodyPos, existing, completed, asmIdx, asmOff, sStart,
                   sPos>>
    /\ UNCHANGED runVars
    /\ UNCHANGED notDL

\* download() is called: the size probe is sent.
DownloadStart ==
    /\ dpc = "idle"
    /\ runs < MaxRuns
    /\ runs' = runs + 1
    /\ dpc' = "probe"
    /\ result' = "none"
    /\ existing' = 0
    /\ outAtStart' = (FileLen(out) > 0)
    /\ after' = verify
    /\ path' = "none"
    /\ verify' = "none"
    /\ UNCHANGED <<config, sameCfg, srv, out, parts, dirExists, aborts, chunks, ct,
                   reqStart, bodyPos, completed, asmIdx, asmOff, sStart, sPos>>
    /\ UNCHANGED notDL

\* get_file_size: the fallback GET failed, download() returns the error.
ProbeErr ==
    /\ dpc = "probe"
    /\ EndRun("Err")
    /\ UNCHANGED <<config, sameCfg, srv, out, parts, dirExists, runs, aborts>>
    /\ UNCHANGED runVars
    /\ UNCHANGED notDL

\* Mutant of ProbeOk: a resumed run re-enters the parallel path for the
\* remaining bytes.
ProbeOk_ParallelReentry ==
    /\ dpc = "probe"
    /\ LET file_size == GetFileSize(srv)
           downloaded_size == IF config.resume /\ out # NoFile THEN Len(out) ELSE 0
       IN  IF file_size = 0 \/ downloaded_size >= file_size
           THEN /\ dpc' = "simple"
                /\ path' = "simple"
                /\ chunks' = <<>>
           ELSE /\ dpc' = "planned"
                /\ path' = "parallel"
                /\ chunks' = CalculateChunks(downloaded_size,
                                             file_size - downloaded_size,
                                             file_size, config)
    /\ UNCHANGED <<config, sameCfg, srv, out, parts, dirExists, runs, aborts, result,
                   ct, reqStart, bodyPos, existing, completed, asmIdx, asmOff,
                   sStart, sPos>>
    /\ UNCHANGED <<outAtStart, verify, after>>
    /\ UNCHANGED notDL

\* get_file_size answered; download() takes the simple path when the size is
\* unknown or when resume finds a non-empty output file, else it plans chunks.
ProbeOk ==
    /\ dpc = "probe"
    /\ LET file_size == GetFileSize(srv)
           downloaded_size == IF config.resume /\ out # NoFile THEN Len(out) ELSE 0
       IN  IF file_size = 0 \/ downloaded_size > 0
           THEN /\ dpc' = "simple"
                /\ path' = "simple"
                /\ chunks' = <<>>
           ELSE /\ dpc' = "planned"
                /\ path' = "parallel"
                /\ chunks' = CalculateChunks(downloaded_size,
                                             file_size - downloaded_size,
                                             file_size, config)
    /\ UNCHANGED <<config, sameCfg, srv, out, parts, dirExists, runs, aborts, result,
                   ct, reqStart, bodyPos, existing, completed, asmIdx, asmOff,
                   sStart, sPos>>
    /\ UNCHANGED <<outAtStart, verify, after>>
    /\ UNCHANGED notDL

\* download_chunks: create the parts directory, stat-check the part files,
\* spawn one task per chunk.
DownloadChunksStart ==
    /\ dpc = "planned"
    /\ dirExists' = TRUE
    /\ parts' = StatCheck(parts, chunks)
    /\ existing' = ExistingBytes(parts, chunks, Len(chunks))
    /\ ct' = [i \in PartIds |-> IF i \in Planned THEN "queued" ELSE "none"]
    /\ dpc' = "chunks"
    /\ UNCHANGED <<config, sameCfg, srv, out, runs, aborts, result, chunks, reqStart,
                   bodyPos, completed, asmIdx, asmOff, sStart, sPos>>
    /\ UNCHANGED runVars
    /\ UNCHANGED notDL

\* Mutant of ResumeStart: the request starts at chunk.start although the part
\* file is appended to.
ResumeStart_Restart(c, existing_len) == c.start

\* download_chunk_to_part: start = chunk.start + existing_len.
ResumeStart(c, existing_len) == c.start + existing_len

\* Tasks holding a semaphore permit.
Running == {i \in PartIds : ct[i] \in {"request", "stream"}}

\* download_chunk_to_part up to the request: the part file is stat-checked, a
\* complete part returns Ok at once, else the Range request is sent.
ChunkStart(i) ==
    /\ dpc = "chunks"
    /\ ct[i] = "queued"
    /\ Cardinality(Running) < config.parallel_chunks
    /\ LET c == ChunkOf(i)
           existing_len == Min(FileLen(parts[i]), MaxLen(c))
           start == ResumeStart(c, existing_len)
       IN  IF start > c.end
           THEN /\ ct' = [ct EXCEPT ![i] = "ok"]
                /\ UNCHANGED reqStart
           ELSE /\ ct' = [ct EXCEPT ![i] = "request"]
                /\ reqStart' = [reqStart EXCEPT ![i] = start]
    /\ UNCHANGED <<config, sameCfg, srv, out, parts, dirExists, dpc, runs, aborts,
                   result, chunks, bodyPos, existing, completed, asmIdx, asmOff,
                   sStart, sPos>>
    /\ UNCHANGED runVars
    /\ UNCHANGED notDL

\* The server answered 206: the part file is opened for append (created when
\* missing).
ChunkResponse(i) ==
    /\ dpc = "chunks"
    /\ ct[i] = "request"
    /\ srv.range
    /\ ct' = [ct EXCEPT ![i] = "stream"]
    /\ parts' = [parts EXCEPT ![i] = IF @ = NoFile THEN <<>> ELSE @]
    /\ bodyPos' = [bodyPos EXCEPT ![i] = 0]
    /\ UNCHANGED <<config, sameCfg, srv, out, dirExists, dpc, runs, aborts, result,
                   chunks, reqStart, existing, completed, asmIdx, asmOff, sStart,
                   sPos>>
    /\ UNCHANGED runVars
    /\ UNCHANGED notDL

\* The request failed or the status is not 206: the task returns Err.
ChunkRefused(i) ==
    /\ dpc = "chunks"
    /\ ct[i] = "request"
    /\ ct' = [ct EXCEPT ![i] = "err"]
    /\ UNCHANGED <<config, sameCfg, srv, out, parts, dirExists, dpc, runs, aborts,
                   result, chunks, reqStart, bodyPos, existing, completed, asmIdx,
                   asmOff, sStart, sPos>>
    /\ UNCHANGED runVars
    /\ UNCHANGED notDL

\* Ok(Some(item)): the next byte of the body is appended to the part file.
ChunkData(i) ==
    /\ dpc = "chunks"
    /\ ct[i] = "stream"
    /\ LET body == RangeBody(reqStart[i], ChunkOf(i).end)
       IN  /\ bodyPos[i] < Len(body)
           /\ parts' = [parts EXCEPT ![i] = Append(@, body[bodyPos[i] + 1])]
    /\ bodyPos' = [bodyPos EXCEPT ![i] = @ + 1]
    /\ UNCHANGED <<config, sameCfg, srv, out, dirExists, dpc, runs, aborts, result,
                   chunks, ct, reqStart, existing, completed, asmIdx, asmOff, sStart,
                   sPos>>
    /\ UNCHANGED runVars
    /\ UNCHANGED notDL

\* Ok(None): the body is complete, the file is flushed, the task returns Ok.
ChunkEof(i) ==
    /\ dpc = "chunks"
    /\ ct[i] = "stream"
    /\ bodyPos[i] = Len(RangeBody(reqStart[i], ChunkOf(i).end))
    /\ ct' = [ct EXCEPT ![i] = "ok"]
    /\ UNCHANGED <<config, sameCfg, srv, out, parts, dirExists, dpc, runs, aborts,
                   result, chunks, reqStart, bodyPos, existing, completed, asmIdx,
                   asmOff, sStart, sPos>>
    /\ UNCHANGED runVars
    /\ UNCHANGED notDL

\* The stream yields an error, a write fails or no data arrives for 30 s.
ChunkStreamErr(i) ==
    /\ dpc = "chunks"
    /\ ct[i] = "stream"
    /\ ct' = [ct EXCEPT ![i] = "err"]
    /\ UNCHANGED <<config, sameCfg, srv, out, parts, dirExists, dpc, runs, aborts,
                   result, chunks, reqStart, bodyPos, existing, completed, asmIdx,
                   asmOff, sStart, sPos>>
    /\ UNCHANGED runVars
    /\ UNCHANGED notDL

\* join_next yields Ok(Ok(chunk_index)).
JoinOk(i) ==
    /\ dpc = "chunks"
    /\ ct[i] = "ok"
    /\ ct' = [ct EXCEPT ![i] = "joined"]
    /\ completed' = Append(completed, i)
    /\ UNCHANGED <<config, sameCfg, srv, out, parts, dirExists, dpc, runs, aborts,
                   result, chunks, reqStart, bodyPos, existing, asmIdx, asmOff,
                   sStart, sPos>>
    /\ UNCHANGED runVars
    /\ UNCHANGED notDL

\* Mutant of JoinErr: the parts directory is removed on failure.
JoinErr_Cleanup(i) ==
    /\ dpc = "chunks"
    /\ ct[i] = "err"
    /\ EndRun("Err")
    /\ parts' = [j \in PartIds |-> NoFile]
    /\ dirExists' = FALSE
    /\ UNCHANGED <<config, sameCfg, srv, out, runs, aborts>>
    /\ UNCHANGED runVars
    /\ UNCHANGED notDL

\* join_next yields Ok(Err(e)): download_chunks returns the error, the task
\* set is dropped, the part files stay.
JoinErr(i) ==
    /\ dpc = "chunks"
    /\ ct[i] = "err"
    /\ EndRun("Err")
    /\ UNCHANGED <<config, sameCfg, srv, out, parts, dirExists, runs, aborts>>
    /\ UNCHANGED runVars
    /\ UNCHANGED notDL

\* Every task was joined; assemble_parts creates (truncates) the output file.
AssembleCreate ==
    /\ dpc = "chunks"
    /\ \A i \in Planned : ct[i] = "joined"
    /\ out' = <<>>
    /\ asmIdx' = 0
    /\ asmOff' = 0
    /\ dpc' = "assemble"
    /\ UNCHANGED <<config, sameCfg, srv, parts, dirExists, runs, aborts, result,
                   chunks, ct, reqStart, bodyPos, existing, completed, sStart, sPos>>
    /\ UNCHANGED runVars
    /\ UNCHANGED notDL

\* assemble_parts: the k-th part copied (k from 0) is part-k.
NextPart(k) == k

\* tokio::io::copy of the current part, one byte; at its end the loop moves on
\* to the next part.
AssembleCopy ==
    /\ dpc = "assemble"
    /\ asmIdx < Len(chunks)
    /\ LET f == parts[NextPart(asmIdx)]
       IN  /\ f # NoFile
           /\ IF asmOff < Len(f)
              THEN /\ out' = Append(out, f[asmOff + 1])
                   /\ asmOff' = asmOff + 1
                   /\ UNCHANGED asmIdx
              ELSE /\ asmIdx' = asmIdx + 1
                   /\ asmOff' = 0
                   /\ UNCHANGED out
    /\ UNCHANGED <<config, sameCfg, srv, parts, dirExists, dpc, runs, aborts, result,
                   chunks, ct, reqStart, bodyPos, existing, completed, sStart, sPos>>
    /\ UNCHANGED runVars
    /\ UNCHANGED notDL

\* All parts are copied: sync_all, and assemble_parts returns.
AssembleSync ==
    /\ dpc = "assemble"
    /\ asmIdx = Len(chunks)
    /\ dpc' = "assembled"
    /\ UNCHANGED <<config, sameCfg, srv, out, parts, dirExists, runs, aborts, result,
                   chunks, ct, reqStart, bodyPos, existing, completed, asmIdx, asmOff,
                   sStart, sPos>>
    /\ UNCHANGED runVars
    /\ UNCHANGED notDL

\* remove_dir_all of the parts directory; download() verifies the checksum
\* when one is supplied and returns.
DownloadChunksDone ==
    /\ dpc = "assembled"
    /\ parts' = [i \in PartIds |-> NoFile]
    /\ dirExists' = FALSE
    /\ verify' = VerifyIfSupplied(out, config)
    /\ EndRun(IF verify' = "failed" THEN "Err" ELSE "Ok")
    /\ UNCHANGED <<config, sameCfg, srv, out, runs, aborts>>
    /\ UNCHANGED <<outAtStart, path, after>>
    /\ UNCHANGED notDL

\* simple_download: the length of an existing output file is the resume
\* position; the GET is sent, with a Range header when resuming.
SimpleStart ==
    /\ dpc = "simple"
    /\ sStart' = IF config.resume /\ out # NoFile THEN Len(out) ELSE 0
    /\ dpc' = "s_request"
    /\ UNCHANGED <<config, sameCfg, srv, out, parts, dirExists, runs, aborts, result,
                   chunks, ct, reqStart, bodyPos, existing, completed, asmIdx, asmOff,
                   sPos>>
    /\ UNCHANGED runVars
    /\ UNCHANGED notDL

\* The status of the answer to a GET resuming at position n (0: no Range).
SimpleStatus(n) ==
    IF n > 0 /\ srv.range
    THEN IF n < FileSize THEN 206 ELSE 416
    ELSE 200

\* Mutant of EffectiveResumeFrom: the status is not looked at.
EffectiveResumeFrom_AnyStatus(resume_from, status) == resume_from

\* simple_download: effective_resume_from.
EffectiveResumeFrom(resume_from, status) ==
    IF resume_from > 0 /\ status = 206 THEN resume_from ELSE 0

\* The position in the server's file of the first body byte of an answer to
\* a GET resuming at position n: n with 206, 0 with the full body.
BodyStart(n, status) == IF status = 206 THEN n ELSE 0

\* A success status: the file is opened for append when the server answered
\* 206 to a resume, else it is created (truncated).
SimpleResponse ==
    /\ dpc = "s_request"
    /\ SimpleStatus(sStart) \in {200, 206}
    /\ LET effective_resume_from ==
               EffectiveResumeFrom(sStart, SimpleStatus(sStart))
       IN  /\ sStart' = BodyStart(sStart, SimpleStatus(sStart))
           /\ out' = IF effective_resume_from > 0 THEN out ELSE <<>>
    /\ sPos' = 0
    /\ dpc' = "s_stream"
    /\ UNCHANGED <<config, sameCfg, srv, parts, dirExists, runs, aborts, result,
                   chunks, ct, reqStart, bodyPos, existing, completed, asmIdx, asmOff>>
    /\ UNCHANGED runVars
    /\ UNCHANGED notDL

\* The request failed or the status is neither success nor 206.
SimpleRefused ==
    /\ dpc = "s_request"
    /\ EndRun("Err")
    /\ UNCHANGED <<config, sameCfg, srv, out, parts, dirExists, runs, aborts>>
    /\ UNCHANGED runVars
    /\ UNCHANGED notDL

\* The next byte of the body is written to the output file.
SimpleData ==
    /\ dpc = "s_stream"
    /\ sStart + sPos < FileSize
    /\ out' = Append(out, ServerFile[sStart + sPos + 1])
    /\ sPos' = sPos + 1
    /\ UNCHANGED <<config, sameCfg, srv, parts, dirExists, dpc, runs, aborts, result,
                   chunks, ct, reqStart, bodyPos, existing, completed, asmIdx, asmOff,
                   sStart>>
    /\ UNCHANGED runVars
    /\ UNCHANGED notDL

\* The body is complete: sync_all, the checksum is verified when one is
\* supplied, simple_download returns.
SimpleEof ==
    /\ dpc = "s_stream"
    /\ sStart + sPos = FileSize
    /\ verify' = VerifyIfSupplied(out, config)
    /\ EndRun(IF verify' = "failed" THEN "Err" ELSE "Ok")
    /\ UNCHANGED <<config, sameCfg, srv, out, parts, dirExists, runs, aborts>>
    /\ UNCHANGED <<outAtStart, path, after>>
    /\ UNCHANGED notDL

\* The stream yields an error or a write fails.
SimpleStreamErr ==
    /\ dpc = "s_stream"
    /\ EndRun("Err")
    /\ UNCHANGED <<config, sameCfg, srv, out, parts, dirExists, runs, aborts>>
    /\ UNCHANGED runVars
    /\ UNCHANGED notDL

\* The run is cancelled where it stands (the future is dropped or the process
\* is killed): the files stay as they are.
Abort ==
    /\ dpc # "idle"
    /\ aborts' = aborts + 1
    /\ EndRun("aborted")
    /\ UNCHANGED <<config, sameCfg, srv, out, parts, dirExists, runs>>
    /\ UNCHANGED runVars
    /\ UNCHANGED notDL

\* Ok(None) before the body is complete: the server sent fewer bytes than the
\* range asked for and ended the body in order.  The loop breaks, the file is
\* flushed, the task returns Ok.
ChunkShortEof(i) ==
    /\ dpc = "chunks"
    /\ ct[i] = "stream"
    /\ bodyPos[i] < Len(RangeBody(reqStart[i], ChunkOf(i).end))
    /\ ct' = [ct EXCEPT ![i] = "ok"]
    /\ UNCHANGED <<config, sameCfg, srv, out, parts, dirExists, dpc, runs, aborts,
                   result, chunks, reqStart, bodyPos, existing, completed, asmIdx,
                   asmOff, sStart, sPos>>
    /\ UNCHANGED runVars
    /\ UNCHANGED notDL

DLNext ==
    \/ \E c \in Configs : Reconfigure(c)
    \/ DownloadStart
    \/ ProbeErr
    \/ ProbeOk
    \/ DownloadChunksStart
    \/ \E i \in PartIds : ChunkStart(i)
    \/ \E i \in PartIds : ChunkResponse(i)
    \/ \E i \in PartIds : ChunkRefused(i)
    \/ \E i \in PartIds : ChunkData(i)
    \/ \E i \in PartIds : ChunkEof(i)
    \/ \E i \in PartIds : ChunkStreamErr(i)
    \/ \E i \in PartIds : JoinOk(i)
    \/ \E i \in PartIds : JoinErr(i)
    \/ AssembleCreate
    \/ AssembleCopy
    \/ AssembleSync
    \/ DownloadChunksDone
    \/ SimpleStart
    \/ SimpleResponse
    \/ SimpleRefused
    \/ SimpleData
    \/ SimpleEof
    \/ SimpleStreamErr
    \/ Abort

----------------------------------------------------------------------------
(***************************************************************************)
(* Part 4.  The running averages of client_daily_stats, as step 5 of the    *)
(* processor describes the upsert that process_batch calls.  Averages are   *)
(* exact fractions <<numerator, denominator>> in lowest terms.              *)
(***************************************************************************)

\* Bound: number of committed heartbeats.
MaxBeats == 3

\* The (client_id, date) keys of the rows.
StatKeys == {<<"c1", 1>>, <<"c1", 2>>}

\* cpu_usage, memory_usage and disk_usage of a heartbeat, in percent.
Samples ==
    {[cpu |-> 30, memory |-> 50, disk |-> 10],
     [cpu |-> 60, memory |-> 50, disk |-> 40],
     [cpu |-> 90, memory |-> 20, disk |-> 10],
     [cpu |-> 40, memory |-> 50, disk |-> 10]}

RECURSIVE Gcd(_, _)
Gcd(a, b) == IF b = 0 THEN a ELSE Gcd(b, a % b)

\* The fraction p/q in lowest terms (q > 0, p >= 0).
Frac(p, q) == <<p \div Gcd(p, q), q \div Gcd(p, q)>>

\* Mutant of running_avg: the weight of the new value is always 1/2.
running_avg_Halving(avg, x, n) ==
    Frac(avg[1] + x * avg[2], avg[2] * 2)

\* running_avg(avg, x, n) = avg + (x - avg) / n.
running_avg(avg, x, n) ==
    Frac(avg[1] * n + x * avg[2] - avg[1], avg[2] * n)

\* No row for the key yet.
NoRow ==
    [heartbeat_count |-> 0, cpu_avg |-> <<0, 1>>, mem_avg |-> <<0, 1>>,
     disk_avg |-> <<0, 1>>]

NoStatTx == [open |-> FALSE]

\* The row the upsert leaves for a heartbeat with sample x.
ClientDailyStatsRow(row, x) ==
    [heartbeat_count |-> row.heartbeat_count + 1,
     cpu_avg |-> running_avg(row.cpu_avg, x.cpu, row.heartbeat_count + 1),
     mem_avg |-> running_avg(row.mem_avg, x.memory, row.heartbeat_count + 1),
     disk_avg |-> running_avg(row.disk_avg, x.disk, row.heartbeat_count + 1)]

AvgInit ==
    /\ stats = [k \in StatKeys |-> NoRow]
    /\ statTx = NoStatTx
    /\ samples = [k \in StatKeys |-> <<>>]

\* The averages are not part of the run: their state is fixed.
AvgIdle == AvgInit

RECURSIVE SumOf(_, _, _)
SumOf(seq, field, n) ==
    IF n = 0 THEN 0 ELSE SumOf(seq, field, n - 1) + seq[n][field]

\* Number of heartbeats committed so far, over all keys.
CommittedBeats == Len(samples[<<"c1", 1>>]) + Len(samples[<<"c1", 2>>])

\* process_batch upserts the row of key k for a heartbeat with sample x,
\* inside the record's transaction.
AvgUpsert(k, x) ==
    /\ ~statTx.open
    /\ CommittedBeats < MaxBeats
    /\ statTx' = [open |-> TRUE, key |-> k, sample |-> x,
                  row |-> ClientDailyStatsRow(stats[k], x)]
    /\ UNCHANGED <<stats, samples>>
    /\ UNCHANGED notAvg

\* transaction.commit() succeeds.
AvgCommit ==
    /\ statTx.open
    /\ stats' = [stats EXCEPT ![statTx.key] = statTx.row]
    /\ samples' = [samples EXCEPT ![statTx.key] = Append(@, statTx.sample)]
    /\ statTx' = NoStatTx
    /\ UNCHANGED notAvg

\* A later step or the commit fails: the transaction is rolled back.
AvgRollback ==
    /\ statTx.open
    /\ statTx' = NoStatTx
    /\ UNCHANGED <<stats, samples>>
    /\ UNCHANGED notAvg

AvgNext ==
    \/ \E k \in StatKeys, x \in Samples : AvgUpsert(k, x)
    \/ AvgCommit
    \/ AvgRollback

(***************************************************************************)
(* Part 5.  The model catalog of db/models.rs: create_or_update_model,      *)
(* get_models_list, HotModelClass::get_hot_model_with_details and           *)
(* get_models_batch.  The id column (a serial) takes no part in any filter  *)
(* or order and is left out of the rows.                                    *)
(***************************************************************************)

\* Bound: number of devices in one get_models_batch call.
MaxDevices == 2

\* SQL NULL and Rust None; a present value x is Some(x).
Null == <<>>
Some(x) == <<x>>

\* The (name, version) keys of client_models.
ModelKeys == {<<"A", "v1">>, <<"B", "v1">>, <<"C", "v1">>}

\* The values created_at can take (DEFAULT now() of the insert).
Instants == {1, 2}

\* EngineType::to_i16.
to_i16(e) ==
    CASE e = "None" -> 0
      [] e = "vLLM" -> 1
      [] e = "Ollama" -> 2
      [] e = "Llama" -> 3

\* Arguments of create_or_update_model after name and version.
ModelArgs ==
    {[version_code |-> 2, engine_type |-> 3, is_active |-> Some(TRUE),
      min_memory_mb |-> Some(1024), min_gpu_memory_gb |-> Some(8),
      download_url |-> Some("u1"), checksum |-> Some("s1"),
      expected_size |-> Some(1)],
     [version_code |-> 3, engine_type |-> 3, is_active |-> Some(TRUE),
      min_memory_mb |-> Null, min_gpu_memory_gb |-> Some(16),
      download_url |-> Some("u2"), checksum |-> Null,
      expected_size |-> Null],
     [version_code |-> 1, engine_type |-> 3, is_active |-> Some(TRUE),
      min_memory_mb |-> Null, min_gpu_memory_gb |-> Null,
      download_url |-> Null, checksum |-> Null, expected_size |-> Null],
     [version_code |-> 1, engine_type |-> 3, is_active |-> Null,
      min_memory_mb |-> Some(2048), min_gpu_memory_gb |-> Some(0),
      download_url |-> Some("u1"), checksum |-> Some("s2"),
      expected_size |-> Some(2)],
     [version_code |-> 3, engine_type |-> 3, is_active |-> Some(FALSE),
      min_memory_mb |-> Null, min_gpu_memory_gb |-> Null,
      download_url |-> Some("u2"), checksum |-> Null,
      expected_size |-> Some(1)],
     [version_code |-> 3, engine_type |-> 2, is_active |-> Some(TRUE),
      min_memory_mb |-> Null, min_gpu_memory_gb |-> Null,
      download_url |-> Null, checksum |-> Some("s1"),
      expected_size |-> Null]}

NoModel == [exists |-> FALSE]

\* The row INSERT stores when (name, version) is new.
InsertedRow(a, t) ==
    [exists |-> TRUE, version_code |-> a.version_code,
     is_active |-> a.is_active, min_memory_mb |-> a.min_memory_mb,
     engine_type |-> a.engine_type,
     min_gpu_memory_gb |-> a.min_gpu_memory_gb,
     download_url |-> a.download_url, checksum |-> a.checksum,
     expected_size |-> a.expected_size, created_at |-> t]

\* Mutant of Coalesce: EXCLUDED.is_active always wins.
Coalesce_Excluded(excluded, stored) == excluded

\* COALESCE(EXCLUDED.is_active, client_models.is_active).
Coalesce(excluded, stored) == IF excluded # Null THEN excluded ELSE stored

\* The row ON CONFLICT (name, version) DO UPDATE SET leaves.
UpdatedRow(row, a) ==
    [row EXCEPT !.version_code = a.version_code,
                !.is_active = Coalesce(a.is_active, row.is_active),
                !.min_memory_mb = a.min_memory_mb,
                !.engine_type = a.engine_type,
                !.min_gpu_memory_gb = a.min_gpu_memory_gb,
                !.download_url = a.download_url,
                !.checksum = a.checksum,
                !.expected_size = a.expected_size]

\* The latest created_at of the table: now() does not go back.
LatestInstant(table) ==
    IF \A k \in ModelKeys : table[k] = NoModel THEN 1
    ELSE CHOOSE t \in Instants :
            /\ \E k \in ModelKeys : table[k] # NoModel /\ table[k].created_at = t
            /\ \A k \in ModelKeys :
                  table[k] # NoModel => table[k].created_at <= t

\* Keys of the rows the WHERE clause of get_models_list keeps.
Selected(table, is_active, engine_type, min_gpu_memory_gb) ==
    {k \in ModelKeys :
        /\ table[k] # NoModel
        /\ is_active # Null => table[k].is_active = is_active
        /\ min_gpu_memory_gb # Null =>
              \/ table[k].min_gpu_memory_gb = Null
              \/ table[k].min_gpu_memory_gb[1] <= min_gpu_memory_gb[1]
        /\ engine_type # Null => table[k].engine_type = engine_type[1]}

\* CASE WHEN min_gpu_memory_gb IS NULL THEN 0 ELSE min_gpu_memory_gb END.
OrderKey(row) ==
    IF row.min_gpu_memory_gb = Null THEN 0 ELSE row.min_gpu_memory_gb[1]

\* Row r1 sorts strictly before r2 under the ORDER BY of get_models_list.
OrderedBefore(r1, r2) ==
    \/ OrderKey(r1) > OrderKey(r2)
    \/ /\ OrderKey(r1) = OrderKey(r2)
       /\ r1.version_code > r2.version_code
    \/ /\ OrderKey(r1) = OrderKey(r2)
       /\ r1.version_code = r2.version_code
       /\ r1.created_at > r2.created_at

\* The orders in which the database can return the rows of keys ks: rows
\* the ORDER BY does not tell apart come in any order.
Orderings(table, ks) ==
    {s \in [1..Cardinality(ks) -> ks] :
        /\ \A i, j \in 1..Cardinality(ks) : i # j => s[i] # s[j]
        /\ \A i, j \in 1..Cardinality(ks) :
              i < j => ~OrderedBefore(table[s[j]], table[s[i]])}

\* A row as struct Models holds it (engine_type is not selected).
ModelsRow(table, k) ==
    [name |-> k[1], version |-> k[2],
     version_code |-> table[k].version_code,
     is_active |-> table[k].is_active[1],
     min_memory_mb |-> table[k].min_memory_mb,
     min_gpu_memory_gb |-> table[k].min_gpu_memory_gb,
     created_at |-> table[k].created_at,
     download_url |-> table[k].download_url,
     checksum |-> table[k].checksum,
     expected_size |-> table[k].expected_size]

DbErr == [ok |-> FALSE]

\* What get_models_list can return: an error when the query fails or a
\* selected row has is_active NULL (struct Models holds a bool), else the
\* selected rows in one of the orders of the ORDER BY.
GetModelsList(table, is_active, engine_type, min_gpu_memory_gb) ==
    LET ks == Selected(table, is_active, engine_type, min_gpu_memory_gb)
    IN  {DbErr} \cup
        (IF \E k \in ks : table[k].is_active = Null THEN {}
         ELSE {[ok |-> TRUE,
                rows |-> [i \in 1..Cardinality(ks) |-> ModelsRow(table, s[i])]] :
                  s \in Orderings(table, ks)})

\* ModelInfo::default().
NoModelInfo ==
    [ok |-> TRUE, name |-> "", download_url |-> Null, checksum |-> Null,
     expected_size |-> Null]

\* What HotModelClass::get_hot_model_with_details can return.
GetHotModelWithDetails(table, mem_total_gb, engine_type) ==
    {IF ~r.ok THEN DbErr
     ELSE IF r.rows = <<>> THEN NoModelInfo
     ELSE [ok |-> TRUE, name |-> r.rows[1].name,
           download_url |-> r.rows[1].download_url,
           checksum |-> r.rows[1].checksum,
           expected_size |-> r.rows[1].expected_size] :
       r \in GetModelsList(table, Some(TRUE), Some(engine_type),
                           Some(mem_total_gb))}

\* DevicesInfo of a heartbeat: pod_id, engine_type, os_type, memtotal_gb.
DeviceInfos ==
    {[pod_id |-> 0, engine_type |-> "Llama", os_type |-> "LINUX",
      memtotal_gb |-> 12],
     [pod_id |-> 1, engine_type |-> "None", os_type |-> "LINUX",
      memtotal_gb |-> 12],
     [pod_id |-> 2, engine_type |-> "Llama", os_type |-> "NONE",
      memtotal_gb |-> 12],
     [pod_id |-> 3, engine_type |-> "Llama", os_type |-> "LINUX",
      memtotal_gb |-> 0]}

\* Device lists of a batch.
RECURSIVE DeviceLists(_)
DeviceLists(n) ==
    IF n = 0 THEN {<<>>}
    ELSE DeviceLists(n - 1) \cup
         {Append(l, d) : l \in {m \in DeviceLists(n - 1) : Len(m) = n - 1},
                         d \in DeviceInfos}

\* PodModel with no assignment.
EmptyPodModel(pod_id) ==
    [pod_id |-> pod_id, model_name |-> Null, download_url |-> Null,
     checksum |-> Null, expected_size |-> Null]

\* Mutant of Skipped: os_type is not looked at.
Skipped_IgnoresOs(device_info) ==
    \/ device_info.engine_type = "None"
    \/ device_info.memtotal_gb = 0

\* The devices get_models_batch answers without a catalog query.
Skipped(device_info) ==
    \/ device_info.engine_type = "None"
    \/ device_info.os_type = "NONE"
    \/ device_info.memtotal_gb = 0

\* The PodModel pushed for the answer of get_hot_model_with_details.
PodModelOf(device_info, model_info) ==
    IF ~model_info.ok \/ model_info.name = ""
    THEN EmptyPodModel(device_info.pod_id)
    ELSE [pod_id |-> device_info.pod_id,
          model_name |-> Some(model_info.name),
          download_url |-> model_info.download_url,
          checksum |-> model_info.checksum,
          expected_size |-> model_info.expected_size]

\* What one pass of the loop of get_models_batch can do for a device:
\* whether it queried the catalog, and the PodModel it pushed.
PodOutcomes(table, device_info) ==
    IF Skipped(device_info)
    THEN {[queried |-> FALSE, pod |-> EmptyPodModel(device_info.pod_id)]}
    ELSE {[queried |-> TRUE, pod |-> PodModelOf(device_info, m)] :
            m \in GetHotModelWithDetails(table, device_info.memtotal_gb,
                                         to_i16(device_info.engine_type))}

\* What get_models_batch can do for the devices, one outcome per device.
RECURSIVE GetModelsBatch(_, _)
GetModelsBatch(table, devices_info) ==
    IF devices_info = <<>> THEN {<<>>}
    ELSE {Append(front, o) :
            front \in GetModelsBatch(table,
                        SubSeq(devices_info, 1, Len(devices_info) - 1)),
            o \in PodOutcomes(table, devices_info[Len(devices_info)])}

NoList == [called |-> FALSE]
NoBatch == [called |-> FALSE]

CatInit ==
    /\ models = [k \in ModelKeys |-> NoModel]
    /\ listed = NoList
    /\ pods = NoBatch

\* The catalog is not part of the run: its state is fixed.
CatIdle == CatInit

\* create_or_update_model(name, version, a...) succeeds at instant t.
create_or_update_model(k, a, t) ==
    /\ listed = NoList /\ pods = NoBatch
    /\ t >= LatestInstant(models)
    /\ models' =
         [models EXCEPT ![k] =
            IF @ = NoModel THEN InsertedRow(a, t) ELSE UpdatedRow(@, a)]
    /\ listed' = NoList
    /\ pods' = NoBatch
    /\ UNCHANGED notCat

\* Filters of get_models_list.
ListFilters ==
    [is_active : {Null, Some(TRUE)}, engine_type : {Null, Some(3)},
     min_gpu_memory_gb : {Null, Some(12)}]

\* get_models_list(pool, is_active, engine_type, min_gpu_memory_gb).
get_models_list(f) ==
    /\ listed = NoList /\ pods = NoBatch
    /\ \E r \in GetModelsList(models, f.is_active, f.engine_type,
                              f.min_gpu_memory_gb) :
          listed' = [called |-> TRUE, filter |-> f, result |-> r]
    /\ pods' = NoBatch
    /\ UNCHANGED models
    /\ UNCHANGED notCat

\* get_models_batch(hot_models, devices_info).
get_models_batch(devices_info) ==
    /\ listed = NoList /\ pods = NoBatch
    /\ \E os \in GetModelsBatch(models, devices_info) :
          pods' = [called |-> TRUE, devices_info |-> devices_info,
                   queried |-> [i \in 1..Len(os) |-> os[i].queried],
                   pod_model |-> [i \in 1..Len(os) |-> os[i].pod]]
    /\ listed' = NoList
    /\ UNCHANGED models
    /\ UNCHANGED notCat

\* The caller is done with the Vec it was returned.
ResultDropped ==
    /\ listed # NoList \/ pods # NoBatch
    /\ listed' = NoList
    /\ pods' = NoBatch
    /\ UNCHANGED models
    /\ UNCHANGED notCat

CatNext ==
    \/ \E k \in ModelKeys, a \in ModelArgs, t \in Instants :
          create_or_update_model(k, a, t)
    \/ \E f \in ListFilters : get_models_list(f)
    \/ \E d \in DeviceLists(MaxDevices) : get_models_batch(d)
    \/ ResultDropped

(***************************************************************************)
(* Part 6.  LlamaEngine of llm_engine/llama_engine.rs over the process-wide *)
(* engine of llama_wrapper (init_global_engine, unload_global_engine,       *)
(* is_initialized, generate_text).  The methods take &mut self or run under *)
(* the caller's guard, so each is one step.                                 *)
(***************************************************************************)

\* Bound: number of engine operations in a behaviour.
MaxOps == 4

\* Model files that exist, and a path with no file.
ModelFiles == {"m1", "m2"}
NoSuchFile == "gone"

\* Arguments of set_models.
ModelLists == {<<>>, <<"m1">>, <<"m2">>, <<NoSuchFile>>}

\* LlamaEngine::new().
NewEngine ==
    [model_path |-> Null, models_name |-> <<>>, is_initialized |-> FALSE,
     models |-> <<>>]

\* llama_wrapper::is_initialized().
is_initialized(res) == res # {}

\* llama_wrapper::init_global_engine(path, ..) returning Ok: the model is
\* brought into memory.  What is already held is not released by the call.
init_global_engine(res, model_path) == res \cup {model_path}

\* llama_wrapper::unload_global_engine() returning Ok.
unload_global_engine(res) == {}

\* What an engine method leaves: the engine, the wrapper's models, the
\* Result, and the wrapper calls it made.
Outcome(e, res, ok, cs) == [engine |-> e, resident |-> res, ok |-> ok, calls |-> cs]

\* LlamaEngine::ensure_initialized.
ensure_initialized(e, res, cs) ==
    IF e.is_initialized THEN {Outcome(e, res, TRUE, cs)}
    ELSE IF e.model_path = Null THEN {Outcome(e, res, FALSE, cs)}
    ELSE {Outcome([e EXCEPT !.is_initialized = TRUE],
                  init_global_engine(res, e.model_path[1]), TRUE,
                  Append(cs, <<"init", e.model_path[1]>>)),
          Outcome(e, res, FALSE, Append(cs, <<"init", e.model_path[1]>>))}

\* set_models after the previous model is dealt with: lines 116-133.
SetModelsFrom(e, res, cs, model_path) ==
    {IF o.ok
     THEN [o EXCEPT !.engine.models =
              <<[id |-> "llama_cpp_model", name |-> model_path,
                 status |-> "loaded"]>>]
     ELSE o :
       o \in ensure_initialized(
                [e EXCEPT !.model_path = Some(model_path),
                          !.models_name = <<model_path>>], res, cs)}

\* Mutant of SetModels: the previous model is not unloaded.
SetModels_NoUnload(e, res, names) ==
    IF names = <<>> \/ names[1] \notin ModelFiles
    THEN {Outcome(e, res, FALSE, <<>>)}
    ELSE IF e.is_initialized /\ Some(names[1]) # e.model_path
    THEN SetModelsFrom([e EXCEPT !.is_initialized = FALSE], res, <<>>,
                       names[1])
    ELSE SetModelsFrom(e, res, <<>>, names[1])

\* Engine::set_models for LlamaEngine.
SetModels(e, res, names) ==
    IF names = <<>> \/ names[1] \notin ModelFiles
    THEN {Outcome(e, res, FALSE, <<>>)}
    ELSE IF e.is_initialized /\ Some(names[1]) # e.model_path
    THEN {Outcome(e, res, FALSE, <<<<"unload">>>>)} \cup
         SetModelsFrom([e EXCEPT !.is_initialized = FALSE],
                       unload_global_engine(res), <<<<"unload">>>>,
                       names[1])
    ELSE SetModelsFrom(e, res, <<>>, names[1])

\* Engine::stop_worker for LlamaEngine.
StopWorker(e, res) ==
    IF e.is_initialized
    THEN {Outcome(e, res, FALSE, <<<<"unload">>>>),
          Outcome([e EXCEPT !.is_initialized = FALSE,
                            !.models = [i \in 1..Len(e.models) |->
                                          [e.models[i] EXCEPT
                                              !.status = "unloaded"]]],
                  unload_global_engine(res), TRUE, <<<<"unload">>>>)}
    ELSE {Outcome(e, res, TRUE, <<>>)}

\* Mutant of generate_response: the text is generated without the check.
generate_response_Unchecked(res) == {"text", "Err"}

\* LlamaEngine::generate_response: what it can return.  generate_text can
\* fail on a loaded engine.
generate_response(res) ==
    IF ~is_initialized(res) THEN {"Err"} ELSE {"text", "Err"}

\* LlamaEngine::get_model_status.
get_model_status(e, res) ==
    IF e.is_initialized /\ is_initialized(res) THEN "loaded" ELSE "unloaded"

NoCall == [op |-> "none", n |-> 0]

EngInit ==
    /\ engine = NewEngine
    /\ resident = {}
    /\ calls = <<>>
    /\ eret = NoCall

\* The engine is not part of the run: its state is fixed.
EngIdle == EngInit

\* The engine after an operation with outcome o.
EngineStep(op, arg, o) ==
    /\ eret.n < MaxOps
    /\ engine' = o.engine
    /\ resident' = o.resident
    /\ calls' = o.calls
    /\ eret' = [op |-> op, arg |-> arg, ok |-> o.ok, n |-> eret.n + 1]

\* Engine::init.
init ==
    /\ \E o \in (IF engine.model_path = Null
                 THEN {Outcome(engine, resident, TRUE, <<>>)}
                 ELSE ensure_initialized(engine, resident, <<>>)) :
          EngineStep("init", <<>>, o)
    /\ UNCHANGED ffiVars
    /\ UNCHANGED notEng

\* Engine::set_models(names).
set_models(names) ==
    /\ \E o \in SetModels(engine, resident, names) :
          EngineStep("set_models", names, o)
    /\ UNCHANGED ffiVars
    /\ UNCHANGED notEng

\* Engine::start_worker.
start_worker ==
    /\ \E o \in ensure_initialized(engine, resident, <<>>) :
          EngineStep("start_worker", <<>>, o)
    /\ UNCHANGED ffiVars
    /\ UNCHANGED notEng

\* Engine::stop_worker.
stop_worker ==
    /\ \E o \in StopWorker(engine, resident) :
          EngineStep("stop_worker", <<>>, o)
    /\ UNCHANGED ffiVars
    /\ UNCHANGED notEng

\* LlamaEngine::generate_with_params.
generate_with_params ==
    /\ eret.n < MaxOps
    /\ \E r \in generate_response(resident) :
          eret' = [op |-> "generate", arg |-> <<>>, ok |-> r = "text",
                   n |-> eret.n + 1]
    /\ calls' = <<>>
    /\ UNCHANGED <<engine, resident>>
    /\ UNCHANGED ffiVars
    /\ UNCHANGED notEng

EngNext ==
    \/ init
    \/ \E names \in ModelLists : set_models(names)
    \/ start_worker
    \/ stop_worker
    \/ generate_with_params

(***************************************************************************)
(* Part 7.  The entry points of lib.rs on the global engine: the C          *)
(* functions gpuf_llm_init, gpuf_llm_generate, gpuf_llm_unload and the JNI  *)
(* functions startInferenceService, stopInferenceService, generateText,     *)
(* loadModel, startComputeMonitoring, stopComputeMonitoring, with            *)
(* notify_current_model and report_inference_error.  Each caller is a        *)
(* thread; a step is what a thread does up to its next await or wrapper     *)
(* call.                                                                    *)
(***************************************************************************)

Threads == {"t1", "t2"}

NoThread == "none"

\* The mock client id startComputeMonitoring puts into worker_args.
MockClientId == "0102030405060708090a0b0c0d0e0f10"

NoProxy == [set |-> FALSE]

NoReturn == [entry |-> "none"]

FfiInit ==
    /\ global_engine = FALSE
    /\ lock = [readers |-> {}, writer |-> NoThread]
    /\ tpc = [t \in Threads |-> "idle"]
    /\ targ = [t \in Threads |-> Null]
    /\ jret = NoReturn
    /\ proxy = NoProxy
    /\ wire = {}

\* The entry points are not part of the run: their state is fixed.
FfiIdle == FfiInit

\* get_global_compute_proxy: a copy of the stored proxy; the worker is not
\* copied.
get_global_compute_proxy(p) ==
    IF p.set THEN [p EXCEPT !.worker = FALSE] ELSE NoProxy

\* What notify_current_model can do for the proxy copy p: the messages it
\* emits and its Result.
notify_current_model(p, model_path) ==
    IF ~p.set THEN {[emits |-> {}, ok |-> TRUE, how |-> "no proxy"]}
    ELSE IF p.offline_mode
    THEN {[emits |-> {}, ok |-> TRUE, how |-> "offline"]}
    ELSE IF p.worker
    THEN {[emits |-> {}, ok |-> TRUE, how |-> "logged"]}
    ELSE {[emits |-> {[kind |-> "POST /api/models/current",
                       model |-> model_path]},
           ok |-> r, how |-> "http"] : r \in BOOLEAN}

\* What report_inference_error emits for the proxy copy p.
report_inference_error(p) ==
    IF p.set /\ ~p.offline_mode
    THEN {[kind |-> "POST /api/errors/inference", model |-> ""]}
    ELSE {}

\* Mutant of LoadModelReturn: a failed notification fails the load.
LoadModelReturn_NotifyFatal(n) == IF n.ok THEN 0 ELSE -1

\* What loadModel returns after a successful load and notification n.
LoadModelReturn(n) == 0

\* Thread t returns from entry point e with value code.
Return(t, e, code, how) ==
    /\ tpc' = [tpc EXCEPT ![t] = "idle"]
    /\ jret' = [entry |-> e, thread |-> t, code |-> code, how |-> how]

\* lib::init and startInferenceService: a new LlamaEngine is stored in
\* GLOBAL_ENGINE unless one is there.  startInferenceService does not pass
\* its model_path to the engine.
startInferenceService(t) ==
    /\ tpc[t] = "idle"
    /\ global_engine' = TRUE
    /\ Return(t, "startInferenceService", 0, "")
    /\ UNCHANGED <<lock, targ, proxy, wire, engVars>>
    /\ UNCHANGED notEng

\* generateText up to engine.read().await.
generateText(t) ==
    /\ tpc[t] = "idle"
    /\ IF global_engine
       THEN /\ tpc' = [tpc EXCEPT ![t] = "gen_wait"]
            /\ UNCHANGED <<jret, wire>>
       ELSE /\ Return(t, "generateText", "null", "")
            /\ wire' = wire \cup
                 report_inference_error(get_global_compute_proxy(proxy))
    /\ UNCHANGED <<global_engine, lock, targ, proxy, engVars>>
    /\ UNCHANGED notEng

\* generateText is given the read guard and calls engine.generate.
generateText_read(t) ==
    /\ tpc[t] = "gen_wait"
    /\ lock.writer = NoThread
    /\ lock' = [lock EXCEPT !.readers = @ \cup {t}]
    /\ tpc' = [tpc EXCEPT ![t] = "gen_run"]
    /\ UNCHANGED <<global_engine, targ, jret, proxy, wire, engVars>>
    /\ UNCHANGED notEng

\* engine.generate returns; the guard is dropped; an error is reported.
generateText_return(t) ==
    /\ tpc[t] = "gen_run"
    /\ lock' = [lock EXCEPT !.readers = @ \ {t}]
    /\ \E r \in generate_response(resident) :
          /\ Return(t, "generateText", IF r = "text" THEN "text" ELSE "null", "")
          /\ wire' = IF r = "text" THEN wire
                     ELSE wire \cup report_inference_error(
                                       get_global_compute_proxy(proxy))
    /\ UNCHANGED <<global_engine, targ, proxy, engVars>>
    /\ UNCHANGED notEng

\* stopInferenceService up to engine.read().await.
stopInferenceService(t) ==
    /\ tpc[t] = "idle"
    /\ IF global_engine
       THEN tpc' = [tpc EXCEPT ![t] = "stop_wait"] /\ UNCHANGED jret
       ELSE Return(t, "stopInferenceService", 0, "")
    /\ UNCHANGED <<global_engine, lock, targ, proxy, wire, engVars>>
    /\ UNCHANGED notEng

\* stopInferenceService is given the read guard and calls
\* unload_global_engine.
stopInferenceService_read(t) ==
    /\ tpc[t] = "stop_wait"
    /\ lock.writer = NoThread
    /\ lock' = [lock EXCEPT !.readers = @ \cup {t}]
    /\ tpc' = [tpc EXCEPT ![t] = "stop_run"]
    /\ UNCHANGED <<global_engine, targ, jret, proxy, wire, engVars>>
    /\ UNCHANGED notEng

\* unload_global_engine returns to stopInferenceService; the guard is
\* dropped.  The LlamaEngine behind the read guard is not changed.
stopInferenceService_return(t) ==
    /\ tpc[t] = "stop_run"
    /\ lock' = [lock EXCEPT !.readers = @ \ {t}]
    /\ \/ /\ resident' = unload_global_engine(resident)
          /\ Return(t, "stopInferenceService", 0, "")
       \/ /\ UNCHANGED resident
          /\ Return(t, "stopInferenceService", -1, "")
    /\ UNCHANGED <<global_engine, targ, proxy, wire, engine, calls, eret>>
    /\ UNCHANGED notEng

\* loadModel(model_path) up to engine.write().await.
loadModel(t, model_path) ==
    /\ tpc[t] = "idle"
    /\ IF global_engine
       THEN /\ tpc' = [tpc EXCEPT ![t] = "load_wait"]
            /\ targ' = [targ EXCEPT ![t] = Some(model_path)]
            /\ UNCHANGED jret
       ELSE /\ Return(t, "loadModel", -1, "")
            /\ UNCHANGED targ
    /\ UNCHANGED <<global_engine, lock, proxy, wire, engVars>>
    /\ UNCHANGED notEng

\* loadModel is given the write guard and calls engine.load_model.
loadModel_write(t) ==
    /\ tpc[t] = "load_wait"
    /\ lock.writer = NoThread
    /\ lock.readers = {}
    /\ lock' = [lock EXCEPT !.writer = t]
    /\ tpc' = [tpc EXCEPT ![t] = "load_run"]
    /\ UNCHANGED <<global_engine, targ, jret, proxy, wire, engVars>>
    /\ UNCHANGED notEng

\* engine.load_model returns; the guard is dropped.
loadModel_loaded(t) ==
    /\ tpc[t] = "load_run"
    /\ lock' = [lock EXCEPT !.writer = NoThread]
    /\ \E o \in SetModels(engine, resident, <<targ[t][1]>>) :
          /\ engine' = o.engine
          /\ resident' = o.resident
          /\ calls' = o.calls
          /\ IF o.ok
             THEN tpc' = [tpc EXCEPT ![t] = "load_notify"] /\ UNCHANGED jret
             ELSE Return(t, "loadModel", -1, "")
    /\ UNCHANGED <<global_engine, targ, proxy, wire, eret>>
    /\ UNCHANGED notEng

\* loadModel after a successful load: notify_current_model, whose error is
\* only logged, and return.
loadModel_return(t) ==
    /\ tpc[t] = "load_notify"
    /\ \E n \in notify_current_model(get_global_compute_proxy(proxy),
                                     targ[t][1]) :
          /\ wire' = wire \cup n.emits
          /\ Return(t, "loadModel", LoadModelReturn(n),
                    IF n.ok THEN n.how ELSE "failed")
    /\ UNCHANGED <<global_engine, lock, targ, proxy, engVars>>
    /\ UNCHANGED notEng

\* gpuf_llm_init(model_path, ..) calls init_global_engine.
gpuf_llm_init(t, model_path) ==
    /\ tpc[t] = "idle"
    /\ tpc' = [tpc EXCEPT ![t] = "ffi_init_run"]
    /\ targ' = [targ EXCEPT ![t] = Some(model_path)]
    /\ UNCHANGED <<global_engine, lock, jret, proxy, wire, engVars>>
    /\ UNCHANGED notEng

\* init_global_engine returns to gpuf_llm_init.
gpuf_llm_init_return(t) ==
    /\ tpc[t] = "ffi_init_run"
    /\ \/ /\ targ[t][1] \in ModelFiles
          /\ resident' = init_global_engine(resident, targ[t][1])
          /\ Return(t, "gpuf_llm_init", 0, "")
       \/ /\ UNCHANGED resident
          /\ Return(t, "gpuf_llm_init", -1, "")
    /\ UNCHANGED <<global_engine, lock, targ, proxy, wire, engine, calls, eret>>
    /\ UNCHANGED notEng

\* gpuf_llm_generate: the is_initialized check, then generate_text is
\* called.
gpuf_llm_generate(t) ==
    /\ tpc[t] = "idle"
    /\ IF is_initialized(resident)
       THEN tpc' = [tpc EXCEPT ![t] = "ffi_gen_run"] /\ UNCHANGED jret
       ELSE Return(t, "gpuf_llm_generate", "null", "")
    /\ UNCHANGED <<global_engine, lock, targ, proxy, wire, engVars>>
    /\ UNCHANGED notEng

\* generate_text returns to gpuf_llm_generate.
gpuf_llm_generate_return(t) ==
    /\ tpc[t] = "ffi_gen_run"
    /\ \E r \in {"text", "null"} : Return(t, "gpuf_llm_generate", r, "")
    /\ UNCHANGED <<global_engine, lock, targ, proxy, wire, engVars>>
    /\ UNCHANGED notEng

\* gpuf_llm_unload calls unload_global_engine.
gpuf_llm_unload(t) ==
    /\ tpc[t] = "idle"
    /\ tpc' = [tpc EXCEPT ![t] = "ffi_unload_run"]
    /\ UNCHANGED <<global_engine, lock, targ, jret, proxy, wire, engVars>>
    /\ UNCHANGED notEng

\* unload_global_engine returns to gpuf_llm_unload.
gpuf_llm_unload_return(t) ==
    /\ tpc[t] = "ffi_unload_run"
    /\ \/ /\ resident' = unload_global_engine(resident)
          /\ Return(t, "gpuf_llm_unload", 0, "")
       \/ /\ UNCHANGED resident
          /\ Return(t, "gpuf_llm_unload", -1, "")
    /\ UNCHANGED <<global_engine, lock, targ, proxy, wire, engine, calls, eret>>
    /\ UNCHANGED notEng

\* startComputeMonitoring(.., offline_mode): init_global_compute_proxy
\* stores the proxy once its worker has logged in.
startComputeMonitoring(t, offline_mode) ==
    /\ tpc[t] = "idle"
    /\ \/ /\ proxy' = [set |-> TRUE, offline_mode |-> offline_mode,
                       worker |-> TRUE, client_id |-> MockClientId]
          /\ Return(t, "startComputeMonitoring", 0, "")
       \/ /\ UNCHANGED proxy
          /\ Return(t, "startComputeMonitoring", -1, "")
    /\ UNCHANGED <<global_engine, lock, targ, wire, engVars>>
    /\ UNCHANGED notEng

\* stopComputeMonitoring: stop_global_compute_proxy.
stopComputeMonitoring(t) ==
    /\ tpc[t] = "idle"
    /\ proxy' = NoProxy
    /\ Return(t, "stopComputeMonitoring", 0, "")
    /\ UNCHANGED <<global_engine, lock, targ, wire, engVars>>
    /\ UNCHANGED notEng

\* The entry points on the engine.
FfiNext ==
    \/ \E t \in Threads : startInferenceService(t)
    \/ \E t \in Threads : generateText(t)
    \/ \E t \in Threads : generateText_read(t)
    \/ \E t \in Threads : generateText_return(t)
    \/ \E t \in Threads : stopInferenceService(t)
    \/ \E t \in Threads : stopInferenceService_read(t)
    \/ \E t \in Threads : stopInferenceService_return(t)
    \/ \E t \in Threads, m \in ModelFiles : loadModel(t, m)
    \/ \E t \in Threads : loadModel_write(t)
    \/ \E t \in Threads : loadModel_loaded(t)
    \/ \E t \in Threads : loadModel_return(t)
    \/ \E t \in Threads, m \in ModelFiles : gpuf_llm_init(t, m)
    \/ \E t \in Threads : gpuf_llm_init_return(t)
    \/ \E t \in Threads : gpuf_llm_generate(t)
    \/ \E t \in Threads : gpuf_llm_generate_return(t)
    \/ \E t \in Threads : gpuf_llm_unload(t)
    \/ \E t \in Threads : gpuf_llm_unload_return(t)

\* loadModel of one thread with the compute proxy started and stopped.
NotifyNext ==
    \/ startInferenceService("t1")
    \/ \E m \in ModelFiles \cup {NoSuchFile} : loadModel("t1", m)
    \/ loadModel_write("t1")
    \/ loadModel_loaded("t1")
    \/ loadModel_return("t1")
    \/ generateText("t1")
    \/ generateText_read("t1")
    \/ generateText_return("t1")
    \/ \E offline_mode \in BOOLEAN : startComputeMonitoring("t1", offline_mode)
    \/ stopComputeMonitoring("t1")

(***************************************************************************)
(* Part 8.  download() of a fresh run from calculate_chunks to the join of  *)
(* the chunk tasks, for every value of parallel_chunks and chunk_size.  A   *)
(* chunk task is taken as a whole: it waits for a permit, runs, and ends    *)
(* with Ok or Err.                                                          *)
(***************************************************************************)

MaxParallel == 3
MaxChunkSize == 3

\* parallel_chunks and chunk_size are usize: 0 is a value.
PlanConfigs ==
    [parallel_chunks : 0..MaxParallel, chunk_size : 0..MaxChunkSize]

\* Indices a plan_chunks can use.
TaskIds == 0..(MaxParallel - 1)

\* calculate_chunks(0, remaining, remaining) divides by zero: chunk_size is 0
\* or chunk_count is 0 on the path that computes them.
DividesByZero(remaining, cfg) ==
    /\ ~(remaining <= cfg.chunk_size \/ cfg.parallel_chunks = 1)
    /\ \/ cfg.chunk_size = 0
       \/ Min(remaining \div cfg.chunk_size, cfg.parallel_chunks) = 0

PlanInit ==
    /\ plan_cfg \in PlanConfigs
    /\ plan_size \in 1..FileSize
    /\ plan_pc = "start"
    /\ plan_chunks = <<>>
    /\ semaphore = 0
    /\ set = [i \in TaskIds |-> "none"]

\* No plan_chunks is part of the run.
PlanIdle ==
    /\ plan_cfg = [parallel_chunks |-> 1, chunk_size |-> 1]
    /\ plan_size = 1
    /\ plan_pc = "start"
    /\ plan_chunks = <<>>
    /\ semaphore = 0
    /\ set = [i \in TaskIds |-> "none"]

\* download(): nothing to resume, calculate_chunks(0, plan_size, plan_size).
\* A division by zero panics.
PlanChunks ==
    /\ plan_pc = "start"
    /\ IF DividesByZero(plan_size, plan_cfg)
       THEN plan_pc' = "panicked" /\ UNCHANGED plan_chunks
       ELSE /\ plan_chunks' = CalculateChunks(0, plan_size, plan_size, plan_cfg)
            /\ plan_pc' = "planned"
    /\ UNCHANGED <<plan_cfg, plan_size, semaphore, set>>
    /\ UNCHANGED notPlan

\* download_chunks: Semaphore::new(parallel_chunks) and one spawned task per
\* chunk, each waiting in semaphore.acquire().
SpawnTasks ==
    /\ plan_pc = "planned"
    /\ semaphore' = plan_cfg.parallel_chunks
    /\ set' = [i \in TaskIds |->
                 IF \E n \in 1..Len(plan_chunks) : plan_chunks[n].index = i
                 THEN "waiting" ELSE "none"]
    /\ plan_pc' = "joining"
    /\ UNCHANGED <<plan_cfg, plan_size, plan_chunks>>
    /\ UNCHANGED notPlan

\* A task is given its permit.
TaskAcquire(i) ==
    /\ plan_pc = "joining"
    /\ set[i] = "waiting"
    /\ semaphore > 0
    /\ semaphore' = semaphore - 1
    /\ set' = [set EXCEPT ![i] = "running"]
    /\ UNCHANGED <<plan_cfg, plan_size, plan_pc, plan_chunks>>
    /\ UNCHANGED notPlan

\* download_chunk_to_part returns: its request was answered, its body
\* ended, failed or stalled into the watchdog.  The permit is dropped.
TaskEnd(i, r) ==
    /\ plan_pc = "joining"
    /\ set[i] = "running"
    /\ semaphore' = semaphore + 1
    /\ set' = [set EXCEPT ![i] = r]
    /\ UNCHANGED <<plan_cfg, plan_size, plan_pc, plan_chunks>>
    /\ UNCHANGED notPlan

\* join_next yields Ok(Ok(index)).
JoinedOk(i) ==
    /\ plan_pc = "joining"
    /\ set[i] = "ok"
    /\ set' = [set EXCEPT ![i] = "joined"]
    /\ UNCHANGED <<plan_cfg, plan_size, plan_pc, plan_chunks, semaphore>>
    /\ UNCHANGED notPlan

\* join_next yields Ok(Err(e)): download_chunks returns the error.
JoinedErr(i) ==
    /\ plan_pc = "joining"
    /\ set[i] = "err"
    /\ plan_pc' = "err"
    /\ UNCHANGED <<plan_cfg, plan_size, plan_chunks, semaphore, set>>
    /\ UNCHANGED notPlan

\* join_next yields None: the parts are assembled and download() returns.
JoinedAll(r) ==
    /\ plan_pc = "joining"
    /\ \A i \in TaskIds : set[i] \in {"none", "joined"}
    /\ plan_pc' = r
    /\ UNCHANGED <<plan_cfg, plan_size, plan_chunks, semaphore, set>>
    /\ UNCHANGED notPlan

PlanNext ==
    \/ PlanChunks
    \/ SpawnTasks
    \/ \E i \in TaskIds : TaskAcquire(i)
    \/ \E i \in TaskIds, r \in {"ok", "err"} : TaskEnd(i, r)
    \/ \E i \in TaskIds : JoinedOk(i)
    \/ \E i \in TaskIds : JoinedErr(i)
    \/ \E r \in {"ok", "err"} : JoinedAll(r)

(***************************************************************************)
(* Part 9.  LAST_ERROR, set_last_error and gpuf_get_last_error of lib.rs.   *)
(* The entry points are taken by their outcome: a call succeeds or fails    *)
(* (what makes it fail is Part 7's matter); a failing call records its     *)
(* message.  A message is written with the thread that recorded it.        *)
(***************************************************************************)

\* Entry points that report with a status, and the one that returns a
\* pointer.
StatusCalls == {"gpuf_init", "gpuf_llm_init", "gpuf_llm_unload"}
PointerCalls == {"gpuf_llm_generate"}

NoFfiCall == [call |-> "none"]

ErrInit ==
    /\ LAST_ERROR = Null
    /\ ffi_ret = [t \in Threads |-> NoFfiCall]
    /\ got_error = [t \in Threads |-> Null]

\* The C interface is not part of the run.
ErrIdle == ErrInit

\* set_last_error(err): *LAST_ERROR.lock() = Some(err).
set_last_error(last, err) == Some(err)

\* What a call returns: 0 or -1, a pointer or null.
ReturnValue(f, ok) ==
    IF f \in PointerCalls
    THEN IF ok THEN "ptr" ELSE "null"
    ELSE IF ok THEN 0 ELSE -1

\* An entry point succeeds on thread t: LAST_ERROR is left as it is.
CallSucceeds(t, f) ==
    /\ ffi_ret' = [ffi_ret EXCEPT ![t] = [call |-> f, value |-> ReturnValue(f, TRUE)]]
    /\ UNCHANGED <<LAST_ERROR, got_error>>
    /\ UNCHANGED notErr

\* An entry point fails on thread t: set_last_error, then -1 or null.
CallFails(t, f) ==
    /\ LAST_ERROR' = set_last_error(LAST_ERROR, [thread |-> t, call |-> f])
    /\ ffi_ret' = [ffi_ret EXCEPT ![t] = [call |-> f, value |-> ReturnValue(f, FALSE)]]
    /\ UNCHANGED got_error
    /\ UNCHANGED notErr

\* gpuf_get_last_error on thread t: a copy of the message, or null.
gpuf_get_last_error(t) ==
    /\ got_error' = [got_error EXCEPT ![t] = LAST_ERROR]
    /\ ffi_ret' = [ffi_ret EXCEPT ![t] =
                     [call |-> "gpuf_get_last_error",
                      value |-> IF LAST_ERROR = Null THEN "null" ELSE "ptr"]]
    /\ UNCHANGED LAST_ERROR
    /\ UNCHANGED notErr

ErrNext ==
    \/ \E t \in Threads, f \in StatusCalls \cup PointerCalls : CallSucceeds(t, f)
    \/ \E t \in Threads, f \in StatusCalls \cup PointerCalls : CallFails(t, f)
    \/ \E t \in Threads : gpuf_get_last_error(t)

(***************************************************************************)
(* Part 10.  inference_shared.rs: the request queue, the oneshot response   *)
(* channels and the background processor.  The engine is used either        *)
(* through GLOBAL_SHARED_ENGINE (init_global_shared_engine,                  *)
(* generate_text_shared, start_background_processor), whose std Mutex is    *)
(* locked by every user, or directly (generate_text_async and               *)
(* process_requests on an engine the caller owns).                          *)
(***************************************************************************)

MaxCallers == 3

Callers == 1..MaxCallers

Processor == 0

NoHolder == -1

SharedInit ==
    /\ shared_use \in {"global", "direct"}
    /\ engine_mutex = NoHolder
    /\ request_queue = <<>>
    /\ response_senders = {}
    /\ next_id = 0
    /\ sent = {}
    /\ caller_pc = [c \in Callers |-> "start"]
    /\ caller_id = [c \in Callers |-> Null]
    /\ proc_pc = "spawned"
    /\ proc_req = Null

\* The shared engine is not part of the run.
SharedIdle ==
    /\ shared_use = "direct"
    /\ engine_mutex = NoHolder
    /\ request_queue = <<>>
    /\ response_senders = {}
    /\ next_id = 0
    /\ sent = {}
    /\ caller_pc = [c \in Callers |-> "start"]
    /\ caller_id = [c \in Callers |-> Null]
    /\ proc_pc = "spawned"
    /\ proc_req = Null

\* generate_text_shared and start_background_processor keep the MutexGuard
\* of the global engine across their await.
LockHeldWhileAwaiting(use) == use = "global"

\* generate_text_shared: engine.lock().unwrap() returns.
CallerLock(c) ==
    /\ shared_use = "global"
    /\ caller_pc[c] = "start"
    /\ engine_mutex = NoHolder
    /\ engine_mutex' = c
    /\ caller_pc' = [caller_pc EXCEPT ![c] = "locked"]
    /\ UNCHANGED <<shared_use, request_queue, response_senders, next_id, sent,
                   caller_id, proc_pc, proc_req>>
    /\ UNCHANGED notSh

\* generate_text_async up to response_rx.await: the id is taken, the sender
\* is stored, the request is pushed.
CallerEnqueue(c) ==
    /\ caller_pc[c] = IF shared_use = "global" THEN "locked" ELSE "start"
    /\ caller_id' = [caller_id EXCEPT ![c] = Some(next_id)]
    /\ next_id' = next_id + 1
    /\ response_senders' = response_senders \cup {next_id}
    /\ request_queue' = Append(request_queue, next_id)
    /\ caller_pc' = [caller_pc EXCEPT ![c] = "awaiting"]
    /\ engine_mutex' = IF LockHeldWhileAwaiting(shared_use) \/ engine_mutex # c
                       THEN engine_mutex ELSE NoHolder
    /\ UNCHANGED <<shared_use, sent, proc_pc, proc_req>>
    /\ UNCHANGED notSh

\* response_rx.await yields Ok(text): the call returns Ok and its guard is
\* dropped.
CallerReceive(c) ==
    /\ caller_pc[c] = "awaiting"
    /\ caller_id[c][1] \in sent
    /\ caller_pc' = [caller_pc EXCEPT ![c] = "returned"]
    /\ engine_mutex' = IF engine_mutex = c THEN NoHolder ELSE engine_mutex
    /\ UNCHANGED <<shared_use, request_queue, response_senders, next_id, sent,
                   caller_id, proc_pc, proc_req>>
    /\ UNCHANGED notSh

\* The background task starts: through the global engine it locks the
\* Mutex, and process_requests, which never returns, runs under the guard.
ProcessorStart ==
    /\ proc_pc = "spawned"
    /\ shared_use = "global" => engine_mutex = NoHolder
    /\ engine_mutex' = IF shared_use = "global" THEN Processor ELSE engine_mutex
    /\ proc_pc' = "loop"
    /\ UNCHANGED <<shared_use, request_queue, response_senders, next_id, sent,
                   caller_pc, caller_id, proc_req>>
    /\ UNCHANGED notSh

\* process_requests: queue.pop_front() yields a request.
ProcessorPop ==
    /\ proc_pc = "loop"
    /\ request_queue # <<>>
    /\ proc_req' = Some(Head(request_queue))
    /\ request_queue' = Tail(request_queue)
    /\ proc_pc' = "infer"
    /\ UNCHANGED <<shared_use, engine_mutex, response_senders, next_id, sent,
                   caller_pc, caller_id>>
    /\ UNCHANGED notSh

\* process_requests: the text is there; the sender is removed and the
\* response is sent.
ProcessorSend ==
    /\ proc_pc = "infer"
    /\ response_senders' = response_senders \ {proc_req[1]}
    /\ sent' = IF proc_req[1] \in response_senders
               THEN sent \cup {proc_req[1]} ELSE sent
    /\ proc_req' = Null
    /\ proc_pc' = "loop"
    /\ UNCHANGED <<shared_use, engine_mutex, request_queue, next_id, caller_pc,
                   caller_id>>
    /\ UNCHANGED notSh

SharedNext ==
    \/ \E c \in Callers : CallerLock(c)
    \/ \E c \in Callers : CallerEnqueue(c)
    \/ \E c \in Callers : CallerReceive(c)
    \/ ProcessorStart
    \/ ProcessorPop
    \/ ProcessorSend

(***************************************************************************)
(* Part 11.  api_server/points.rs: get_user_points.  A row of               *)
(* device_points_daily joined with gpu_assets is keyed by (client, date);   *)
(* client ids are numbers in their bytea order, and gpu_assets gives each   *)
(* client its user.                                                          *)
(***************************************************************************)

MaxPage == 3

MaxPageSize == 2

PageLimit == 100

DefaultPage == 1

DefaultPageSize == 20

PointClients == 1..3

PointDates == 1..2

PointValues == 1..2

PointUsers == {"u1", "u2"}

\* gpu_assets.user_id of a client.
AssetUser(c) == IF c = 3 THEN "u2" ELSE "u1"

PointKeys == [client : PointClients, date : PointDates]

PointsRequests ==
    [user_id    : PointUsers,
     start_date : {Null} \cup {Some(d) : d \in PointDates},
     end_date   : {Null} \cup {Some(d) : d \in PointDates},
     page       : {Null} \cup {Some(n) : n \in 0..MaxPage},
     page_size  : {Null} \cup {Some(n) : n \in 0..MaxPageSize},
     db_ok      : BOOLEAN]

NoPointsRequest == <<>>

NoPointsResponse == [status |-> 0]

PointsInit ==
    /\ device_points_daily \in [PointKeys -> {Null} \cup {Some(p) : p \in PointValues}]
    /\ points_req = NoPointsRequest
    /\ points_resp = NoPointsResponse

\* The points API is not part of the run.
PointsIdle ==
    /\ device_points_daily = [k \in PointKeys |-> Null]
    /\ points_req = NoPointsRequest
    /\ points_resp = NoPointsResponse

\* #[validate(range(min = 1, max = 100))] on an Option.
ValidRange(v) == v = Null \/ (v[1] >= 1 /\ v[1] <= PageLimit)

\* The WHERE clause of the CTE: the keys of the rows it keeps.
FilteredPoints(tbl, rq) ==
    {k \in PointKeys :
        /\ tbl[k] # Null
        /\ AssetUser(k.client) = rq.user_id
        /\ rq.start_date # Null => k.date >= rq.start_date[1]
        /\ rq.end_date # Null => k.date <= rq.end_date[1]}

\* ROW_NUMBER() OVER (ORDER BY dpd.date DESC, dpd.client_id).
RowNumber(k, filtered) ==
    1 + Cardinality({j \in filtered :
                        \/ j.date > k.date
                        \/ j.date = k.date /\ j.client < k.client})

RECURSIVE SumPoints(_, _)
\* SUM(dpd.points) OVER ().
SumPoints(tbl, filtered) ==
    IF filtered = {} THEN 0
    ELSE LET k == CHOOSE x \in filtered : TRUE
         IN  tbl[k][1] + SumPoints(tbl, filtered \ {k})

\* The outer SELECT: the rows of the window in row order, each carrying the
\* two totals.
SelectPage(tbl, rq, row_offset, size) ==
    LET filtered == FilteredPoints(tbl, rq)
        window == {k \in filtered : /\ RowNumber(k, filtered) > row_offset
                                    /\ RowNumber(k, filtered) <= row_offset + size}
    IN  [i \in 1..Cardinality(window) |->
            LET k == CHOOSE x \in window : RowNumber(x, filtered) = row_offset + i
            IN  [client_id |-> k.client, date |-> k.date, points |-> tbl[k][1],
                 total_points |-> SumPoints(tbl, filtered),
                 total_count |-> Cardinality(filtered)]]

\* The body of the response built from the fetched rows.
PointsListResponse(fetched, pg, size) ==
    IF fetched = <<>>
    THEN [status |-> 200, points |-> <<>>, total_points |-> 0, total_count |-> 0,
          page |-> pg, page_size |-> size]
    ELSE [status |-> 200,
          points |-> [i \in 1..Len(fetched) |->
                         [client_id |-> fetched[i].client_id,
                          date |-> fetched[i].date,
                          points |-> fetched[i].points]],
          total_points |-> fetched[1].total_points,
          total_count |-> fetched[1].total_count,
          page |-> pg, page_size |-> size]

\* GET of the points list.  The handler keeps nothing between two requests,
\* so a run serves one.
get_user_points(rq) ==
    /\ points_req = NoPointsRequest
    /\ points_req' = rq
    /\ points_resp' =
          IF ~(ValidRange(rq.page) /\ ValidRange(rq.page_size))
          THEN [status |-> 400]
          ELSE LET pg == IF rq.page = Null THEN DefaultPage ELSE rq.page[1]
                   size == IF rq.page_size = Null THEN DefaultPageSize
                           ELSE rq.page_size[1]
                   row_offset == (pg - 1) * size
               IN  IF ~rq.db_ok THEN [status |-> 500]
                   ELSE PointsListResponse(
                            SelectPage(device_points_daily, rq, row_offset, size),
                            pg, size)
    /\ UNCHANGED device_points_daily
    /\ UNCHANGED notPt

PointsNext == \E rq \in PointsRequests : get_user_points(rq)

----------------------------------------------------------------------------
\* The specifications.

InitHB == HBInit /\ SWIdle /\ DLIdle /\ AvgIdle /\ CatIdle /\ EngIdle /\ FfiIdle /\ PlanIdle /\ ErrIdle /\ SharedIdle /\ PointsIdle
SpecHB == InitHB /\ [][HBNext]_vars

\* A step of the processor task: every await of start_processor and
\* process_batch returns, with a value or with an error.
ProcessorStep ==
    \/ Recv
    \/ RecvNone
    \/ BatchDone
    \/ MsgSkip
    \/ MsgDecoded
    \/ BeginOk
    \/ BeginErr
    \/ InsertOk
    \/ UpsertClientOk
    \/ UpsertDevicesOk
    \/ StepErr
    \/ CommitOk
    \/ CommitErr

SpecHBDrain == InitHB /\ [][HBDrainNext]_vars /\ WF_vars(ProcessorStep)

InitSweep == SWInit /\ HBInit /\ DLIdle /\ AvgIdle /\ CatIdle /\ EngIdle /\ FfiIdle /\ PlanIdle /\ ErrIdle /\ SharedIdle /\ PointsIdle
SpecSweep == InitSweep /\ [][SWNext]_vars

\* The ticker of the sweeper task fires for ever, so the statement is issued
\* again and again; the database accepts it at some point.
SpecSweepLive == SpecSweep /\ WF_vars(SweepOk)

InitDL == DLInit /\ HBInit /\ SWIdle /\ AvgIdle /\ CatIdle /\ EngIdle /\ FfiIdle /\ PlanIdle /\ ErrIdle /\ SharedIdle /\ PointsIdle
SpecDL == InitDL /\ [][DLNext]_vars

\* Downloads from a server that answers the size probe and honours Range
\* requests, but may end the body of a 206 early.
DLShortInit ==
    /\ config \in {c \in Configs : c.checksum = NoChecksum}
    /\ srv = [head |-> TRUE, range |-> TRUE, total |-> TRUE, length |-> TRUE]
    /\ DLFresh

DLShortNext == DLNext \/ \E i \in PartIds : ChunkShortEof(i)

InitDLShort == DLShortInit /\ HBInit /\ SWIdle /\ AvgIdle /\ CatIdle /\ EngIdle /\ FfiIdle /\ PlanIdle /\ ErrIdle /\ SharedIdle /\ PointsIdle
SpecDLShort == InitDLShort /\ [][DLShortNext]_vars

\* Runs of one configuration that carries a checksum.
DLSumNext ==
    \/ DownloadStart
    \/ ProbeErr
    \/ ProbeOk
    \/ DownloadChunksStart
    \/ \E i \in PartIds : ChunkStart(i)
    \/ \E i \in PartIds : ChunkResponse(i)
    \/ \E i \in PartIds : ChunkRefused(i)
    \/ \E i \in PartIds : ChunkData(i)
    \/ \E i \in PartIds : ChunkEof(i)
    \/ \E i \in PartIds : ChunkStreamErr(i)
    \/ \E i \in PartIds : JoinOk(i)
    \/ \E i \in PartIds : JoinErr(i)
    \/ AssembleCreate
    \/ AssembleCopy
    \/ AssembleSync
    \/ DownloadChunksDone
    \/ SimpleStart
    \/ SimpleResponse
    \/ SimpleRefused
    \/ SimpleData
    \/ SimpleEof
    \/ SimpleStreamErr
    \/ Abort

InitDLSum == DLSumInit /\ HBInit /\ SWIdle /\ AvgIdle /\ CatIdle /\ EngIdle /\ FfiIdle /\ PlanIdle /\ ErrIdle /\ SharedIdle /\ PointsIdle
SpecDLSum == InitDLSum /\ [][DLSumNext]_vars

InitAvg == AvgInit /\ HBInit /\ SWIdle /\ DLIdle /\ CatIdle /\ EngIdle /\ FfiIdle /\ PlanIdle /\ ErrIdle /\ SharedIdle /\ PointsIdle
SpecAvg == InitAvg /\ [][AvgNext]_vars

InitCat == CatInit /\ HBInit /\ SWIdle /\ DLIdle /\ AvgIdle /\ EngIdle /\ FfiIdle /\ PlanIdle /\ ErrIdle /\ SharedIdle /\ PointsIdle
SpecCat == InitCat /\ [][CatNext]_vars

InitEng == EngInit /\ HBInit /\ SWIdle /\ DLIdle /\ AvgIdle /\ CatIdle /\ FfiIdle /\ PlanIdle /\ ErrIdle /\ SharedIdle /\ PointsIdle
SpecEngine == InitEng /\ [][EngNext]_vars

InitFfi == FfiInit /\ EngInit /\ HBInit /\ SWIdle /\ DLIdle /\ AvgIdle /\ CatIdle /\ PlanIdle /\ ErrIdle /\ SharedIdle /\ PointsIdle
SpecFfi == InitFfi /\ [][FfiNext]_vars

SpecNotify == InitFfi /\ [][NotifyNext]_vars

InitPlan == PlanInit /\ HBInit /\ SWIdle /\ DLIdle /\ AvgIdle /\ CatIdle /\ EngIdle /\ FfiIdle /\ ErrIdle /\ SharedIdle /\ PointsIdle
SpecPlan == InitPlan /\ [][PlanNext]_vars

\* Every request is answered, ends, fails or stalls into the watchdog, and
\* the runtime runs every task that can run.
SpecPlanLive == SpecPlan /\ WF_vars(PlanNext)

InitErr == ErrInit /\ HBInit /\ SWIdle /\ DLIdle /\ AvgIdle /\ CatIdle /\ EngIdle /\ FfiIdle /\ PlanIdle /\ SharedIdle /\ PointsIdle
SpecErr == InitErr /\ [][ErrNext]_vars

InitShared == SharedInit /\ HBInit /\ SWIdle /\ DLIdle /\ AvgIdle /\ CatIdle /\ EngIdle /\ FfiIdle /\ PlanIdle /\ ErrIdle /\ PointsIdle

\* The runtime runs every task that can run.
SpecShared == InitShared /\ [][SharedNext]_vars /\ WF_vars(SharedNext)

InitPoints == PointsInit /\ HBInit /\ SWIdle /\ DLIdle /\ AvgIdle /\ CatIdle /\ EngIdle /\ FfiIdle /\ PlanIdle /\ ErrIdle /\ SharedIdle

SpecPoints == InitPoints /\ [][PointsNext]_vars

----------------------------------------------------------------------------
\* Properties of the heartbeat pipeline.

\* A step that ends the processing of the current record of the batch.
Decodable(r) == r.payload # NoPayload /\ DecodeOk(r.payload)
RecordFinished ==
    /\ pc \in {"msg", "begin", "insert", "upsert_client", "upsert_devices", "commit"}
    /\ idx <= Len(batch)
    /\ batch' = batch
    /\ idx' = idx + 1

C2_PerRecordAtomicity ==
    \A k \in Keys :
        /\ db.cds[k] = db.hb[k]
        /\ \A p \in DevicesOf(k[1]) : db.dds[<<k[1], p, k[2]>>] = db.hb[k]

\* C2 witness: after a crash, a transaction holding all three writes is open
\* (nothing of it visible) while an earlier record of the key is committed.
C2_Witness ==
    /\ crashes = 1
    /\ pc = "commit"
    /\ tx.open /\ tx.hb # {} /\ tx.cds # <<>> /\ tx.dds # <<>>
    /\ db.hb[CurKey] = 1

\* Nothing is left to read, dispatch or process, and the offset is committed.
Quiescent ==
    /\ pos = Len(topic)
    /\ offset = Len(topic)
    /\ buffer = <<>>
    /\ chan = <<>>
    /\ pc = "recv"

\* C6 (as stated): every keyed record whose payload decodes is committed to
\* the database at least once; checked where nothing can deliver it again.
C6_AtLeastOnce ==
    Quiescent =>
        \A i \in 1..Len(topic) :
            (topic[i].key /\ Decodable(topic[i])) => i \in committedRecs

\* C7 (as stated): processing a record that was already committed leaves
\* client_daily_stats and device_points_daily as they were.
C7_IdempotentUpserts ==
    [][(CommitOk /\ batch[idx] \in committedRecs)
         => (db'.cds = db.cds /\ db'.dds = db.dds)]_vars

\* A step in which the current record fails or is skipped.
RecordFailed == MsgSkip \/ BeginErr \/ StepErr \/ CommitErr

\* C8: a failing record leaves the batch, the channel and the committed rows
\* as they are and moves process_batch to the next record; no step lowers a
\* committed count or forgets a committed record; process_batch returns Ok.
C8_FailureIsPerRecord ==
    [][/\ RecordFailed =>
            /\ idx' = idx + 1 /\ pc' = "msg"
            /\ batch' = batch /\ chan' = chan /\ db' = db
       /\ \A k \in Keys : db'.hb[k] >= db.hb[k] /\ db'.cds[k] >= db.cds[k]
       /\ committedRecs \subseteq committedRecs'
       /\ ret' \in {"none", "Ok"}]_vars

\* C8 witness: in one batch, without any crash, the first record (keyed and
\* decodable) failed and the second was committed after it.
C8_Witness ==
    /\ crashes = 0
    /\ batch = <<1, 2>>
    /\ idx = 3
    /\ topic[1].key /\ Decodable(topic[1])
    /\ 1 \notin committedRecs
    /\ 2 \in committedRecs

C18_AvgIsArithmeticMean ==
    \A k \in StatKeys :
        LET n == Len(samples[k]) IN
        /\ stats[k].heartbeat_count = n
        /\ n > 0 =>
            /\ stats[k].cpu_avg = Frac(SumOf(samples[k], "cpu", n), n)
            /\ stats[k].mem_avg = Frac(SumOf(samples[k], "memory", n), n)
            /\ stats[k].disk_avg = Frac(SumOf(samples[k], "disk", n), n)

\* C18 witness: cpu 30, 60, 90 were committed for one key, in that order, and
\* cpu_avg is 60.
C18_Witness ==
    \E k \in StatKeys :
        /\ Len(samples[k]) = 3
        /\ samples[k][1].cpu = 30
        /\ samples[k][2].cpu = 60
        /\ samples[k][3].cpu = 90
        /\ stats[k].cpu_avg = <<60, 1>>
        /\ stats[k].heartbeat_count = 3

----------------------------------------------------------------------------
\* Properties of the sweeper.

\* C9: a sweep never changes the row of a device whose valid_status is
\* 'invalid'; in particular it never moves it to 'offline'.
C9_InvalidNeverSweptOffline ==
    [][SweepOk =>
         \A d \in Devices :
            assets[d].valid_status = "invalid" => assets'[d] = assets[d]]_vars

\* C9 witness: the last sweep marked a device offline and left alone an
\* invalid device that was online and stale.
C9_Witness ==
    /\ rows = 1
    /\ sweptAt = now
    /\ \E d \in Devices :
        /\ pre[d].valid_status = "invalid"
        /\ pre[d].client_status = "online"
        /\ pre[d].updated_at < sweptAt - OfflineAfterSecs
        /\ assets[d] = pre[d]

\* C10: one sweep sets client_status = 'offline' and updated_at = now for
\* exactly the rows that are valid, not offline and older than
\* now - offline_after_secs, and leaves every other row unchanged.
C10_SweepExactlyStaleValid ==
    [][SweepOk =>
         \A d \in Devices :
            IF /\ assets[d].valid_status = "valid"
               /\ assets[d].client_status # "offline"
               /\ assets[d].updated_at < now - OfflineAfterSecs
            THEN assets'[d] = [valid_status |-> "valid",
                               client_status |-> "offline",
                               updated_at |-> now]
            ELSE assets'[d] = assets[d]]_vars

\* C10 witness: two valid online devices, one updated 10 minutes before the
\* sweep and one at the time of the sweep; exactly the first was marked.
C10_Witness ==
    /\ rows = 1
    /\ \A d \in Devices :
        pre[d].valid_status = "valid" /\ pre[d].client_status = "online"
    /\ pre["d1"].updated_at = sweptAt - 600
    /\ pre["d2"].updated_at = sweptAt
    /\ assets["d1"].client_status = "offline"
    /\ assets["d1"].updated_at = sweptAt
    /\ assets["d2"] = pre["d2"]

\* No heartbeat was ingested since the last successful sweep: gpu_assets is
\* still what that sweep left.
NoHeartbeatSinceSweep ==
    /\ rows # NoSweep
    /\ assets = SweepUpdate(pre, sweptAt)

\* C11 as stated: a sweep that follows a sweep with no heartbeat ingested
\* between the two affects zero rows.
C11_SecondSweepAffectsNothing ==
    [][(SweepOk /\ NoHeartbeatSinceSweep) => rows' = 0]_vars

\* C11 amended: a sweep that follows a sweep with no heartbeat between the
\* two changes no row the first one marked, and affects zero rows when NOW()
\* has not advanced; rows that grew stale in between are affected.
C11_SecondSweepSparesMarkedRows ==
    [][(SweepOk /\ NoHeartbeatSinceSweep) =>
         /\ \A d \in Devices :
               (/\ pre[d].valid_status = "valid"
                /\ pre[d].client_status # "offline"
                /\ pre[d].updated_at < sweptAt - OfflineAfterSecs)
               => assets'[d] = assets[d]
         /\ now = sweptAt => rows' = 0]_vars

\* C11 witness: the sweep before the last marked a device at this NOW(), no
\* heartbeat came, and the last sweep, at the same NOW(), affected nothing.
C11_Witness ==
    /\ rows = 0
    /\ sweptAt = now
    /\ sweptAt > 0
    /\ assets = pre
    /\ \E d \in Devices :
        /\ assets[d].valid_status = "valid"
        /\ assets[d].client_status = "offline"
        /\ assets[d].updated_at = sweptAt

\* C20: the sweeper task never ends, whatever sweeps failed, and a device
\* that is valid, not offline and stale is eventually marked offline by a
\* later sweep (or made fresh again by a heartbeat).
C20_SweeperSurvivesErrors ==
    /\ [](sweeper = "running")
    /\ \A d \in Devices :
         SweepMatches(assets[d], now) ~>
            (\/ assets[d].client_status = "offline"
             \/ assets[d].updated_at >= now - OfflineAfterSecs)

\* C20 witness: a sweep failed, and the next sweep the database accepted
\* marked a stale device offline.
C20_Witness ==
    /\ sweeper = "running"
    /\ errs = "recovered"
    /\ rows >= 1
    /\ \E d \in Devices :
        /\ SweepMatches(pre[d], sweptAt)
        /\ assets[d].client_status = "offline"
        /\ assets[d].updated_at = sweptAt

----------------------------------------------------------------------------
\* Properties of the downloader.

\* C3: from the stat check of the part files on, in every later state of the
\* run, the part file of every planned chunk holds at most the chunk's span,
\* end - start + 1 bytes.
C3_PartWithinSpan ==
    dpc \in {"chunks", "assemble", "assembled"} =>
        \A n \in 1..Len(chunks) :
            FileLen(parts[chunks[n].index]) <= MaxLen(chunks[n])

\* C3 witness: a chunk resumed a part file left by an earlier run and filled
\* it to exactly its span.
C3_Witness ==
    /\ dpc = "chunks"
    /\ existing > 0
    /\ \E i \in Planned :
        /\ ct[i] = "ok"
        /\ reqStart[i] > ChunkOf(i).start
        /\ bodyPos[i] > 0
        /\ FileLen(parts[i]) = MaxLen(ChunkOf(i))

\* part-0 ++ part-1 ++ ... ++ part-(n-1).
RECURSIVE ConcatParts(_, _)
ConcatParts(files, n) ==
    IF n = 0 THEN <<>> ELSE ConcatParts(files, n - 1) \o files[n - 1]

\* C4 (as stated): when all chunks of a plan have succeeded, the assembled
\* output is part-0 ... part-(n-1) in index order and is byte-equal to the
\* server's content.
C4_AssembledEqualsServer ==
    dpc = "assembled" =>
        /\ out = ConcatParts(parts, Len(chunks))
        /\ out = ServerFile

\* The first half of C4 alone: the assembled output is the concatenation of
\* the part files in ascending index order, whatever order they completed in.
C4_ConcatInIndexOrder ==
    dpc = "assembled" => out = ConcatParts(parts, Len(chunks))

\* C5 as stated: when every run so far used the same configuration, a run
\* that returns success leaves an output file byte-equal to the server file,
\* whatever happened to the earlier runs.
C5_SuccessAfterAbortsEqualsServer ==
    (dpc = "idle" /\ result = "Ok" /\ sameCfg) => out = ServerFile

\* The same where the size probe reported the size of the file or none.
C5_SuccessEqualsServerWhenProbeRight ==
    (dpc = "idle" /\ result = "Ok" /\ sameCfg /\ GetFileSize(srv) # 1)
        => out = ServerFile

\* A run called with resume = true and a non-empty output file.
ResumeRun == dpc # "idle" /\ config.resume /\ outAtStart

\* C12: a run started with resume = true and a non-empty output file creates
\* no part file and no parts directory, plans no chunk and sends no chunk
\* request; it goes through the simple streaming download only, which alone
\* writes the output file and, on a 206 answer, keeps the existing bytes and
\* appends after them.
C12_ResumeTakesSimplePath ==
    [][ResumeRun =>
         /\ parts' = parts
         /\ dirExists' = dirExists
         /\ dpc' \in {"probe", "simple", "s_request", "s_stream", "idle"}
         /\ chunks' = <<>>
         /\ \A i \in PartIds : ct'[i] = "none" /\ reqStart'[i] = 0
         /\ out' # out => (SimpleResponse \/ SimpleData)
         /\ (SimpleResponse /\ SimpleStatus(sStart) = 206) =>
               (out' = out /\ sStart' = Len(out))
         /\ SimpleData => (Len(out') = Len(out) + 1
                           /\ SubSeq(out', 1, Len(out)) = out)]_vars

\* C12 witness: the size is known, the output file was non-empty at the
\* start, and the run is appending to it on the simple path.
C12_Witness ==
    /\ ResumeRun
    /\ GetFileSize(srv) = FileSize
    /\ dpc = "s_stream"
    /\ sStart > 0
    /\ sPos > 0
    /\ Len(out) = sStart + sPos
    /\ chunks = <<>>

\* C13: the stat check deletes exactly the part files longer than their
\* chunk's span; a chunk task whose part file holds the full span sends no
\* request, and every other chunk task requests from chunk.start plus the
\* length of its part file (chunk.start when there is none).
C13_RestartFetchesOnlyMissing ==
    [][/\ DownloadChunksStart =>
            \A i \in Planned :
               parts'[i] = IF FileLen(parts[i]) > MaxLen(ChunkOf(i))
                           THEN NoFile ELSE parts[i]
       /\ \A i \in PartIds :
            ChunkStart(i) =>
               LET c == ChunkOf(i)
                   len == FileLen(parts[i])
               IN  /\ len <= MaxLen(c)
                   /\ IF len = MaxLen(c)
                      THEN ct'[i] = "ok" /\ reqStart' = reqStart
                      ELSE /\ ct'[i] = "request"
                           /\ reqStart'[i] = c.start + len]_vars

\* C13 witness: after an aborted run with the same configuration, one chunk
\* was found complete and sent no request, and another one requests from
\* behind the bytes its part file already holds.
C13_Witness ==
    /\ dpc = "chunks"
    /\ sameCfg
    /\ runs = 2
    /\ aborts = 1
    /\ \E i, j \in Planned :
        /\ i # j
        /\ ChunkOf(i).start > 0
        /\ ct[i] \in {"ok", "joined"}
        /\ reqStart[i] = 0
        /\ FileLen(parts[i]) = MaxLen(ChunkOf(i))
        /\ ct[j] = "request"
        /\ FileLen(parts[j]) > 0
        /\ reqStart[j] = ChunkOf(j).start + FileLen(parts[j])

\* C14: when a chunk task has failed, the run cannot assemble or return
\* success and deletes neither a part file nor the parts directory; joining
\* the failed task ends the run with an error, drops every task and leaves
\* the files as they are; the parts directory disappears only after every
\* chunk was joined and the output was assembled.
C14_ChunkFailureKeepsParts ==
    [][/\ (\E i \in PartIds : ct[i] = "err") =>
            /\ dpc' \notin {"assemble", "assembled"}
            /\ result' # "Ok"
            /\ dpc' = "idle" => result' \in {"Err", "aborted"}
            /\ dirExists' = dirExists
            /\ out' = out
            /\ \A j \in PartIds : parts[j] # NoFile => parts'[j] # NoFile
       /\ \A i \in PartIds :
            JoinErr(i) =>
               /\ result' = "Err"
               /\ dpc' = "idle"
               /\ parts' = parts
               /\ \A j \in PartIds : ct'[j] = "none"
       /\ (dirExists /\ ~dirExists') =>
            /\ dpc = "assembled"
            /\ \A i \in Planned : ct[i] = "joined"
            /\ out = ConcatParts(parts, Len(chunks))]_vars

\* C14 witness: a parallel run returned an error; the parts directory and a
\* partly filled part file are still there and no output file was created.
C14_Witness ==
    /\ dpc = "idle"
    /\ result = "Err"
    /\ path = "parallel"
    /\ runs = 1
    /\ dirExists
    /\ out = NoFile
    /\ \E i \in PartIds : FileLen(parts[i]) > 0

\* C15: when a checksum is supplied and the digest of the completed output
\* differs from it, the run returns an error and the output file stays as it
\* is, after the parallel path and after the simple path.
C15_MismatchFailsAndKeepsFile ==
    [][((DownloadChunksDone \/ SimpleEof)
          /\ config.checksum # NoChecksum
          /\ Sha256(out) # config.checksum.hex) =>
         /\ result' = "Err"
         /\ out' = out
         /\ out' # NoFile]_vars

\* C15 witness: the first run took the parallel path and failed the
\* verification, the second run took the simple path and failed it too; the
\* output file is on disk.
C15_Witness ==
    /\ dpc = "idle"
    /\ runs = 2
    /\ GetFileSize(srv) > 0
    /\ after = "failed"
    /\ verify = "failed"
    /\ path = "simple"
    /\ result = "Err"
    /\ FileLen(out) > 0

\* C16 as stated: a run that follows a run whose verification failed fetches
\* the whole content again: its simple request is answered with the full
\* body and its parallel path resumes nothing.
C16_RetryRedownloads ==
    after = "failed" =>
        /\ dpc = "s_request" => SimpleStatus(sStart) = 200
        /\ dpc = "chunks" => existing = 0

\* C17 as stated: when neither HEAD nor the Content-Range of the bytes=0-0
\* probe yields the total length, the run plans no chunk and sends no chunk
\* request.
C17_UnknownSizeTakesSimplePath ==
    (~srv.head /\ ~(srv.range /\ srv.total)) =>
        /\ dpc \in {"idle", "probe", "simple", "s_request", "s_stream"}
        /\ chunks = <<>>
        /\ \A i \in PartIds : ct[i] = "none"

----------------------------------------------------------------------------
\* Properties of the model catalog.

\* Row r1 comes strictly before r2 when rows are ordered by
\* min_gpu_memory_gb DESC NULLS LAST, version_code DESC, created_at DESC.
NullsLastBefore(r1, r2) ==
    \/ r1.min_gpu_memory_gb # Null /\ r2.min_gpu_memory_gb = Null
    \/ /\ r1.min_gpu_memory_gb # Null /\ r2.min_gpu_memory_gb # Null
       /\ r1.min_gpu_memory_gb[1] > r2.min_gpu_memory_gb[1]
    \/ /\ r1.min_gpu_memory_gb = r2.min_gpu_memory_gb
       /\ r1.version_code > r2.version_code
    \/ /\ r1.min_gpu_memory_gb = r2.min_gpu_memory_gb
       /\ r1.version_code = r2.version_code
       /\ r1.created_at > r2.created_at

\* The row is active, of the device's engine, and asks for no more GPU
\* memory than the device has.
Eligible(row, device_info) ==
    /\ row # NoModel
    /\ row.is_active = Some(TRUE)
    /\ row.engine_type = to_i16(device_info.engine_type)
    /\ \/ row.min_gpu_memory_gb = Null
       \/ row.min_gpu_memory_gb[1] <= device_info.memtotal_gb

\* C21: the model assigned to a device is an active catalog row of the
\* device's engine whose min_gpu_memory_gb is null or at most the device's
\* memtotal_gb, and no other such row comes before it in the order
\* min_gpu_memory_gb DESC NULLS LAST, version_code DESC, created_at DESC.
C21_AssignedIsFirstEligible ==
    pods # NoBatch =>
        \A i \in 1..Len(pods.pod_model) :
            pods.pod_model[i].model_name # Null =>
                \E k \in ModelKeys :
                    /\ k[1] = pods.pod_model[i].model_name[1]
                    /\ Eligible(models[k], pods.devices_info[i])
                    /\ \A k2 \in ModelKeys :
                          Eligible(models[k2], pods.devices_info[i]) =>
                              ~NullsLastBefore(models[k2], models[k])

\* The part of C21 that does not depend on the order: the assigned model
\* is an eligible row, and its download details are those of the row.
C21_AssignedIsEligible ==
    pods # NoBatch =>
        \A i \in 1..Len(pods.pod_model) :
            pods.pod_model[i].model_name # Null =>
                \E k \in ModelKeys :
                    /\ k[1] = pods.pod_model[i].model_name[1]
                    /\ Eligible(models[k], pods.devices_info[i])
                    /\ pods.pod_model[i].download_url = models[k].download_url
                    /\ pods.pod_model[i].checksum = models[k].checksum
                    /\ pods.pod_model[i].expected_size = models[k].expected_size

\* The catalog of the assignment example: A(min_gpu=8, code=2),
\* B(min_gpu=16, code=3), C(min_gpu=null, code=1), all active Llama rows.
ExampleCatalog ==
    /\ \A k \in ModelKeys : Eligible(models[k], [engine_type |-> "Llama",
                                                  memtotal_gb |-> 16])
    /\ models[<<"A", "v1">>].min_gpu_memory_gb = Some(8)
    /\ models[<<"A", "v1">>].version_code = 2
    /\ models[<<"B", "v1">>].min_gpu_memory_gb = Some(16)
    /\ models[<<"B", "v1">>].version_code = 3
    /\ models[<<"C", "v1">>].min_gpu_memory_gb = Null
    /\ models[<<"C", "v1">>].version_code = 1

\* The example of C21: with that catalog a Llama device of 12 GB that is
\* assigned a model is assigned A.
C21_ExampleAssignsA ==
    (pods # NoBatch /\ ExampleCatalog) =>
        \A i \in 1..Len(pods.pod_model) :
            pods.pod_model[i].model_name \in {Null, Some("A")}

\* C22: get_models_list returns its rows ordered by min_gpu_memory_gb
\* descending with nulls last, then version_code descending, then
\* created_at descending.
C22_ListOrderedNullsLast ==
    (listed # NoList /\ listed.result.ok) =>
        \A i, j \in 1..Len(listed.result.rows) :
            i < j => ~NullsLastBefore(listed.result.rows[j],
                                      listed.result.rows[i])

\* The order C22 states holds among the rows whose min_gpu_memory_gb is
\* not 0.
C22_ListOrderedWithoutZero ==
    (listed # NoList /\ listed.result.ok) =>
        \A i, j \in 1..Len(listed.result.rows) :
            (/\ i < j
             /\ listed.result.rows[i].min_gpu_memory_gb # Some(0)
             /\ listed.result.rows[j].min_gpu_memory_gb # Some(0)) =>
                ~NullsLastBefore(listed.result.rows[j], listed.result.rows[i])

\* C23: create_or_update_model on an existing (name, version) leaves the
\* stored is_active unchanged when is_active is passed as null and
\* overwrites it otherwise; every other updatable column takes the passed
\* value, and created_at stays.
C23_UpsertKeepsIsActiveOnNull ==
    [][models' # models =>
        \A k \in ModelKeys, a \in ModelArgs, t \in Instants :
          (models[k] # NoModel /\ create_or_update_model(k, a, t)) =>
              /\ models'[k].is_active =
                    IF a.is_active = Null THEN models[k].is_active
                    ELSE a.is_active
              /\ models'[k].version_code = a.version_code
              /\ models'[k].min_memory_mb = a.min_memory_mb
              /\ models'[k].engine_type = a.engine_type
              /\ models'[k].min_gpu_memory_gb = a.min_gpu_memory_gb
              /\ models'[k].download_url = a.download_url
              /\ models'[k].checksum = a.checksum
              /\ models'[k].expected_size = a.expected_size
              /\ models'[k].created_at = models[k].created_at
              /\ \A k2 \in ModelKeys \ {k} : models'[k2] = models[k2]]_vars

\* An update that passed is_active as null has acted on an inactive row: the
\* row has the columns of that update and is still inactive.
C23_Witness ==
    \E k \in ModelKeys :
        /\ models[k] # NoModel
        /\ models[k].min_gpu_memory_gb = Some(0)
        /\ models[k].is_active = Some(FALSE)

\* C24: get_models_batch returns one entry per input device, in input order
\* and with the device's pod_id; a device with engine_type None, os_type
\* NONE or memtotal_gb 0 gets an empty assignment and no catalog query.
C24_BatchSkipsAndKeepsOrder ==
    pods # NoBatch =>
        /\ Len(pods.pod_model) = Len(pods.devices_info)
        /\ \A i \in 1..Len(pods.devices_info) :
              /\ pods.pod_model[i].pod_id = pods.devices_info[i].pod_id
              /\ (\/ pods.devices_info[i].engine_type = "None"
                  \/ pods.devices_info[i].os_type = "NONE"
                  \/ pods.devices_info[i].memtotal_gb = 0) =>
                    /\ ~pods.queried[i]
                    /\ pods.pod_model[i] =
                          EmptyPodModel(pods.devices_info[i].pod_id)

\* A batch of two devices was answered: the first has no os_type and got
\* nothing, the second was assigned a model.
C24_Witness ==
    /\ pods # NoBatch
    /\ Len(pods.devices_info) = 2
    /\ pods.devices_info[1].os_type = "NONE"
    /\ pods.devices_info[1].engine_type = "Llama"
    /\ pods.devices_info[1].memtotal_gb = 12
    /\ pods.pod_model[2].model_name # Null

----------------------------------------------------------------------------
\* Properties of the local inference engine.

\* The status the engine reports.
ReportedStatus == get_model_status(engine, resident)

\* C26: a generation request returns an error, and no text, whenever the
\* engine is not in the loaded state, after any sequence of init, load and
\* unload operations.
C26_GenerateNeedsLoaded ==
    (eret.op = "generate" /\ ReportedStatus # "loaded") => ~eret.ok

\* A generation was refused after a model had been loaded and unloaded
\* again, or after a load had failed.
C26_Witness ==
    /\ eret.op = "generate"
    /\ ~eret.ok
    /\ ReportedStatus = "unloaded"
    /\ engine.model_path # Null

\* C27: the reported status changes only from unloaded to loading, from
\* loading to loaded, or to error.
C27_StatusOnlyAlongLoading ==
    [][ReportedStatus' # ReportedStatus =>
          \/ ReportedStatus = "unloaded" /\ ReportedStatus' = "loading"
          \/ ReportedStatus = "loading" /\ ReportedStatus' = "loaded"
          \/ ReportedStatus' = "error"]_vars

\* What does hold of the reported status: it is loaded or unloaded, it
\* becomes loaded only by an operation that returned Ok, and it is loaded
\* exactly when the wrapper holds the engine's model.
C27_StatusIsLoadedOrUnloaded ==
    [](/\ ReportedStatus \in {"loaded", "unloaded"}
       /\ ReportedStatus = "loaded" <=>
             (engine.model_path # Null /\ resident = {engine.model_path[1]}))
    /\ [][(ReportedStatus = "unloaded" /\ ReportedStatus' = "loaded") =>
             (eret'.ok /\ eret'.op \in {"init", "set_models", "start_worker"})]_vars

----------------------------------------------------------------------------
\* The entry points on the global engine.

\* Thread t is inside generate_text or engine.generate.
Generating(t) == tpc[t] \in {"gen_run", "ffi_gen_run"}

\* Thread t is inside init_global_engine or engine.load_model.
Loading(t) == tpc[t] \in {"load_run", "ffi_init_run"}

\* Thread t is inside unload_global_engine.
Unloading(t) == tpc[t] \in {"stop_run", "ffi_unload_run"}

\* C25: a generate call never overlaps a load or an unload of the global
\* engine: every generating thread holds the read lock, every loading and
\* every unloading thread holds the write lock, for every FFI and JNI entry
\* point.
C25_GenerateExcludesLoadAndUnload ==
    \A t \in Threads :
        /\ Generating(t) => t \in lock.readers
        /\ (Loading(t) \/ Unloading(t)) => lock.writer = t
        /\ Generating(t) =>
              \A u \in Threads : ~Loading(u) /\ ~Unloading(u)

\* What holds of the lock: loadModel, the one entry point that takes the
\* write guard, overlaps neither generateText nor stopInferenceService, and
\* the guards are held as tokio's RwLock grants them.
C25_LoadModelExcludesGenerateText ==
    /\ lock.writer # NoThread => lock.readers = {}
    /\ \A t \in Threads :
          /\ tpc[t] = "load_run" <=> lock.writer = t
          /\ tpc[t] \in {"gen_run", "stop_run"} <=> t \in lock.readers
          /\ tpc[t] = "load_run" =>
                \A u \in Threads : tpc[u] \notin {"gen_run", "stop_run"}

\* Thread t returns from loadModel after a successful load.
LoadModelSucceeds(t) == tpc[t] = "load_notify" /\ tpc'[t] = "idle"

\* The compute proxy is there and not in offline mode.
Online == proxy.set /\ ~proxy.offline_mode

\* C29: after every successful model load with offline mode off, a
\* ModelStatus command with the client_id and the loaded model is sent on
\* the control connection; the HTTP POST to /api/models/current is used only
\* when the control connection is unavailable.
C29_ModelStatusOnControlConnection ==
    [][\A t \in Threads :
          (LoadModelSucceeds(t) /\ Online) =>
             /\ proxy.worker =>
                   \E m \in wire' :
                      /\ m.kind = "ModelStatus"
                      /\ m.model = targ[t][1]
             /\ proxy.worker =>
                   \A m \in wire' \ wire :
                      m.kind # "POST /api/models/current"]_vars

\* What the code does instead: with offline mode off every successful load
\* is followed by the HTTP POST to /api/models/current for the loaded
\* model, and no ModelStatus command is ever emitted.
C29_OnlineLoadPostsHttp ==
    /\ [][\A t \in Threads :
            (LoadModelSucceeds(t) /\ Online) =>
               [kind |-> "POST /api/models/current",
                model |-> targ[t][1]] \in wire']_vars
    /\ [](\A m \in wire : m.kind # "ModelStatus")

\* C30: the outcome of a model load does not depend on the notification:
\* after a successful load loadModel returns 0 whether the notification was
\* sent, skipped or failed, and without a proxy or in offline mode nothing
\* is emitted.
C30_LoadOutcomeIgnoresNotification ==
    [][\A t \in Threads :
          LoadModelSucceeds(t) =>
             /\ jret'.entry = "loadModel"
             /\ jret'.code = 0
             /\ (~proxy.set \/ proxy.offline_mode) => wire' = wire]_vars

\* loadModel has returned 0 although the POST of its notification failed.
C30_Witness ==
    /\ jret.entry = "loadModel"
    /\ jret.code = 0
    /\ jret.how = "failed"
    /\ engine.is_initialized
    /\ \E m \in wire : m.kind = "POST /api/models/current"


\* A call of set_models has just returned an error.
SetModelsFailed ==
    /\ eret'.n = eret.n + 1
    /\ eret'.op = "set_models"
    /\ ~eret'.ok

\* C39: a failing set_models leaves the engine state unchanged: the model
\* loaded before is still loaded, and is_initialized, model_path,
\* models_name and the models list have the values they had before the call.
C39_FailedSetModelsChangesNothing ==
    [][SetModelsFailed => engine' = engine /\ resident' = resident]_vars

\* What holds instead: a set_models that fails before its initialisation
\* is attempted (empty list, invalid path, failed unload) changes nothing.
C39_FailedBeforeInitChangesNothing ==
    [][(SetModelsFailed /\ \A i \in 1..Len(calls') : calls'[i][1] # "init")
          => engine' = engine /\ resident' = resident]_vars


----------------------------------------------------------------------------
\* The chunk plan of a fresh download.

\* The number of chunks the plan has for a file of `total` bytes.
ExpectedChunkCount(total, cfg) ==
    IF total <= cfg.chunk_size \/ cfg.parallel_chunks = 1 THEN 1
    ELSE Min(total \div cfg.chunk_size, cfg.parallel_chunks)

\* C33: for total >= 1, chunk_size >= 1 and parallel_chunks >= 1,
\* calculate_chunks(0, total, total) returns n chunks with indices 0..n-1,
\* non-empty, contiguous from 0 and ending at total - 1, with n = 1 if
\* total <= chunk_size or parallel_chunks = 1 and otherwise
\* min(total / chunk_size, parallel_chunks); every chunk but the last has
\* size total / n.
C33_ChunksPartitionFile ==
    (plan_pc # "start" /\ plan_cfg.chunk_size >= 1
                       /\ plan_cfg.parallel_chunks >= 1) =>
       LET n == Len(plan_chunks)
       IN  /\ plan_pc # "panicked"
           /\ n = ExpectedChunkCount(plan_size, plan_cfg)
           /\ n >= 1
           /\ n <= plan_cfg.parallel_chunks
           /\ plan_chunks[1].start = 0
           /\ plan_chunks[n].end = plan_size - 1
           /\ \A k \in 1..n :
                 /\ plan_chunks[k].index = k - 1
                 /\ plan_chunks[k].start <= plan_chunks[k].end
                 /\ k > 1 => plan_chunks[k].start = plan_chunks[k - 1].end + 1
                 /\ k < n => MaxLen(plan_chunks[k]) = plan_size \div n

\* A plan of three chunks whose last chunk takes the remainder.
C33_Witness ==
    /\ plan_pc = "planned"
    /\ Len(plan_chunks) = 3
    /\ MaxLen(plan_chunks[3]) > MaxLen(plan_chunks[1])
    /\ plan_chunks[3].end = plan_size - 1

\* C38: download() always terminates, with success or with an error, for
\* every value of parallel_chunks and chunk_size, 0 included, when every
\* request is answered, ends, fails or stalls into the watchdog.
C38_DownloadTerminates == <>(plan_pc \in {"ok", "err"})

\* What holds instead: download() terminates when parallel_chunks and
\* chunk_size are at least 1, and then no task ever waits for a permit
\* that is not there.
C38_TerminatesWithPositiveConfig ==
    (plan_cfg.chunk_size >= 1 /\ plan_cfg.parallel_chunks >= 1) =>
       /\ <>(plan_pc \in {"ok", "err"})
       /\ [](\A i \in TaskIds : set[i] = "waiting" => semaphore > 0)


----------------------------------------------------------------------------
\* The downloader: resume = false, changed plans, the simple path.

\* The task of chunk i has looked at its part file and goes on.
ChunkStarted(i) ==
    /\ dpc = "chunks" /\ dpc' = "chunks"
    /\ ct[i] = "queued" /\ ct'[i] # "queued"

\* C34: with resume = false a run reuses no bytes of an earlier run: the
\* output file is not kept, no part file is kept, and every chunk is
\* requested from its first byte.
C34_NoResumeReusesNothing ==
    [][~config.resume =>
         /\ DownloadChunksStart =>
               \A i \in PartIds : parts'[i] # NoFile => parts'[i] = <<>>
         /\ \A i \in PartIds :
               ChunkStarted(i) =>
                  /\ ct'[i] = "request"
                  /\ reqStart'[i] = ChunkOf(i).start
         /\ SimpleStart => sStart' = 0]_vars

\* The half of C34 that holds: with resume = false the output file is not
\* kept: the simple path requests the whole file and truncates, and the
\* parallel path is taken whenever the size is known.
C34_NoResumeDropsOutputFile ==
    [][~config.resume =>
         /\ SimpleStart => sStart' = 0
         /\ SimpleResponse => out' = <<>>
         /\ (ProbeOk /\ GetFileSize(srv) > 0) => path' = "parallel"]_vars

\* C35: part files left by an aborted run are reused only for the byte
\* range they were written for: after a change of parallel_chunks or
\* chunk_size between the runs, a successful run still leaves the output
\* file byte-equal to the server file.
C35_ChangedPlanEqualsServer ==
    /\ (dpc = "chunks" /\ GetFileSize(srv) = FileSize) =>
          \A i \in Planned :
             (ct[i] = "queued" /\ parts[i] # NoFile) =>
                parts[i] = SubSeq(ServerFile, ChunkOf(i).start + 1,
                                  ChunkOf(i).start + Len(parts[i]))
    /\ (dpc = "idle" /\ result = "Ok" /\ path = "parallel" /\ ~sameCfg
          /\ GetFileSize(srv) = FileSize) => out = ServerFile

\* What holds instead: with the plan unchanged, the part files a run finds
\* hold the first bytes of their chunks' ranges.
C35_SamePlanReusesOwnRange ==
    (dpc = "chunks" /\ sameCfg /\ GetFileSize(srv) = FileSize) =>
       \A i \in Planned :
          (ct[i] = "queued" /\ parts[i] # NoFile) =>
             parts[i] = SubSeq(ServerFile, ChunkOf(i).start + 1,
                               ChunkOf(i).start + Len(parts[i]))

\* C37: the simple download appends to the existing output file only when
\* it sent Range: bytes=N- with N the existing length and the answer is 206;
\* with a full 2xx body the file is truncated and rewritten from offset 0,
\* so every received byte lies in the file at its offset in the server file.
C37_AppendOnlyOn206 ==
    /\ [][SimpleResponse =>
            IF out' # <<>>
            THEN /\ SimpleStatus(sStart) = 206
                 /\ sStart = Len(out)
                 /\ config.resume
                 /\ out' = out
                 /\ sStart' = sStart
            ELSE /\ SimpleStatus(sStart) = 200
                 /\ sStart' = 0]_vars
    /\ [](dpc = "s_stream" =>
            /\ Len(out) = sStart + sPos
            /\ \A k \in (sStart + 1)..Len(out) : out[k] = ServerFile[k])

\* C37 witnesses: a resuming request was answered with the full body, and
\* the file was rewritten from offset 0.
C37_Witness ==
    /\ dpc = "s_stream"
    /\ outAtStart
    /\ config.resume
    /\ ~srv.range
    /\ sStart = 0
    /\ sPos > 0
    /\ Len(out) = sPos


\* C36: whenever the parallel path returns success, every part file held
\* exactly its chunk's span at assembly and the output file has the length
\* the size probe gave, also when the body of a 206 ended early and no
\* checksum is configured.
C36_SuccessMeansFullParts ==
    [][(DownloadChunksDone /\ result' = "Ok") =>
          /\ \A n \in 1..Len(chunks) :
                FileLen(parts[chunks[n].index]) = MaxLen(chunks[n])
          /\ Len(out) = GetFileSize(srv)]_vars


----------------------------------------------------------------------------
\* The last-error string of the C interface.

\* C31: every entry point reports failure as -1 (or a null pointer) and
\* success as 0, and the last-error string is per thread: gpuf_get_last_error
\* never returns on one thread an error recorded on another, and a failing
\* call on one thread never overwrites the error of another.
C31_LastErrorPerThread ==
    /\ [](\A t \in Threads :
            /\ ffi_ret[t].call \in StatusCalls => ffi_ret[t].value \in {0, -1}
            /\ got_error[t] # Null => got_error[t][1].thread = t)
    /\ [][\A t, u \in Threads :
            (t # u /\ LAST_ERROR # Null /\ LAST_ERROR[1].thread = t
               /\ \E f \in StatusCalls \cup PointerCalls : CallFails(u, f))
            => LAST_ERROR' = LAST_ERROR]_vars

\* What holds instead: there is one last-error string for the process;
\* gpuf_get_last_error returns the message of the latest failing call of any
\* thread, and statuses are 0 and -1.
C31_LastErrorIsProcessWide ==
    /\ [](\A t \in Threads :
            ffi_ret[t].call \in StatusCalls => ffi_ret[t].value \in {0, -1})
    /\ [][/\ \A t \in Threads : gpuf_get_last_error(t) => got_error'[t] = LAST_ERROR
          /\ \A t \in Threads, f \in StatusCalls \cup PointerCalls :
                CallFails(t, f) => LAST_ERROR' = Some([thread |-> t, call |-> f])]_vars


----------------------------------------------------------------------------
\* The shared inference engine.

\* C32: after init_global_shared_engine, every generate_text_shared call
\* of any number of concurrent callers eventually returns Ok with a
\* response: no request is lost, and neither a caller nor the background
\* processor blocks forever.
C32_EveryCallReturns ==
    shared_use = "global" =>
       <>(/\ \A c \in Callers : caller_pc[c] = "returned"
          /\ proc_pc = "loop")

\* What holds instead: through the global engine no call ever returns and
\* no request is ever processed; on an engine used directly every call
\* returns.
C32_GlobalEngineBlocks ==
    /\ shared_use = "global" =>
          [](/\ \A c \in Callers : caller_pc[c] # "returned"
             /\ sent = {}
             /\ proc_pc # "infer")
    /\ shared_use = "direct" =>
          <>(\A c \in Callers : caller_pc[c] = "returned")


----------------------------------------------------------------------------
\* The points list.

\* The request served was valid and the query succeeded.
PointsServed == points_resp.status = 200

\* The row offset of the request served.
ServedOffset == (points_resp.page - 1) * points_resp.page_size

\* The rows of the response are those of the window, in row order.
ServedWindow ==
    LET filtered == FilteredPoints(device_points_daily, points_req)
    IN  /\ Len(points_resp.points) <= points_resp.page_size
        /\ \A k \in filtered :
              (/\ RowNumber(k, filtered) > ServedOffset
               /\ RowNumber(k, filtered) <= ServedOffset + points_resp.page_size)
              <=> (/\ RowNumber(k, filtered) - ServedOffset \in 1..Len(points_resp.points)
                   /\ LET r == points_resp.points[RowNumber(k, filtered) - ServedOffset]
                      IN  /\ r.client_id = k.client
                          /\ r.date = k.date
                          /\ r.points = device_points_daily[k][1])
        /\ Len(points_resp.points) <= Cardinality(filtered)

\* C40: for every valid request get_user_points reports total_count equal
\* to the number of rows that match the filters and total_points equal to
\* the sum of their points, whatever page is requested, and returns at most
\* page_size rows: those with row number in (offset, offset + page_size].
C40_TotalsIndependentOfPage ==
    PointsServed =>
       LET filtered == FilteredPoints(device_points_daily, points_req)
       IN  /\ points_resp.total_count = Cardinality(filtered)
           /\ points_resp.total_points = SumPoints(device_points_daily, filtered)
           /\ ServedWindow

\* What holds instead: the rows are those of the window, and the totals are
\* those of the matching rows when the window holds a row, and 0 when it
\* holds none.
C40_TotalsOnlyOnNonEmptyPage ==
    PointsServed =>
       LET filtered == FilteredPoints(device_points_daily, points_req)
       IN  /\ ServedWindow
           /\ points_resp.points # <<>> =>
                 /\ points_resp.total_count = Cardinality(filtered)
                 /\ points_resp.total_points = SumPoints(device_points_daily, filtered)
           /\ points_resp.points = <<>> =>
                 /\ points_resp.total_count = 0
                 /\ points_resp.total_points = 0

\* A page beyond the last one is served while rows match.
C40_PastLastPage ==
    /\ PointsServed
    /\ points_resp.points = <<>>
    /\ FilteredPoints(device_points_daily, points_req) # {}

====
